---- MODULE Spec2Model ----
(***************************************************************************)
(* A model of the bitchat-tauri core: the binary wire codec                *)
(* (bluetooth/protocol.rs), the message objects (message/message_types.rs),*)
(* the message store and router (message/storage.rs, message/router.rs)    *)
(* and the Noise session engine (crypto/noise_protocol.rs).                *)
(*                                                                         *)
(* Each component has its own specification (SpecCodec, SpecTtl, Spec,     *)
(* SpecStore, SpecNoise, SpecHandshake); a specification moves only the    *)
(* variables of its component and leaves the others in their initial       *)
(* state.                                                                  *)
(***************************************************************************)
EXTENDS Integers, Sequences, FiniteSets, TLC

VARIABLES
    \* ---- wire codec (bluetooth/protocol.rs) ----
    pm,          \* the ProtocolMessage value being built / forwarded
    phase,       \* "build" | "encoded" | "decoded": position of the codec run
    viaBuilders, \* TRUE while pm was made by ProtocolMessage::new and with_* only
    wire,        \* result of BitchatProtocol::encode(pm)
    decoded,     \* result of BitchatProtocol::decode(wire.bytes)
    pmTtlOp,     \* record of the last ProtocolMessage::decrease_ttl call
    \* ---- message objects (message/message_types.rs) ----
    bm,          \* a BitchatMessage value
    bmTtlOp,     \* record of the last BitchatMessage::decrease_ttl call
    \* ---- message store and router ----
    messages,      \* MessageStorage.messages (VecDeque, oldest first)
    message_cache, \* MessageRouter.message_cache: a map from id to message
    task,          \* per task: position inside process_incoming_message
    calls,         \* number of process_incoming_message calls begun
    dispatchCount, \* per message id: calls of a handle_* type handler
    relayCount,    \* per message id: calls of consider_relay
    relaySeen,     \* the messages consider_relay was called with
    storeLog,      \* ids passed to store_message, in call order
    removedAny,    \* TRUE once delete_message / clear_all_messages ran
    outbox,        \* frames the router has handed to the mesh service
    lastSend,      \* result of the last send_message / send_private_message
    \* ---- Noise engine (crypto/noise_protocol.rs) ----
    sessions,    \* per local peer: NoiseEngine.sessions, as its set of entries
    now,         \* the clock (seconds)
    pendingResp, \* process_handshake_message calls between lookup miss and insert
    expiredList, \* cleanup_expired_sessions: peers collected, not yet removed
    lastOp,      \* record of the last start_handshake / encrypt / decrypt call
    \* ---- two engines joined by a lossless link ----
    net,         \* handshake frames in flight
    frameLog,    \* handshake frame types sent, in order
    started,     \* peers that called start_handshake
    simul,       \* TRUE once both peers started before seeing the other's Init
    \* ---- bluetooth/mesh_service.rs ----
    connections,   \* BluetoothMeshService.connections: the connected device ids
    lastAttempt,   \* record of the last attempt_connection call
    lastBroadcast, \* record of the last broadcast_message call
    \* ---- crypto/channel_crypto.rs ----
    channel_keys,   \* ChannelCrypto.channel_keys: channel -> Option of ChannelKey
    password_cache, \* ChannelCrypto.password_cache: channel -> Option of password
    chanOp,         \* record of the last encrypt / decrypt calls
    \* ---- bluetooth/peer_manager.rs ----
    peers,         \* PeerManager.peers: peer id -> Option of PeerInfo
    favorites,     \* PeerManager.favorites: the keys of the map
    blocked_peers, \* PeerManager.blocked_peers: the keys of the map
    clock,         \* SystemTime::now(), in seconds
    lastSweep,     \* record of the last cleanup_offline_peers call
    \* ---- bluetooth/mesh_service.rs: the service and its tasks ----
    is_running,    \* BluetoothMeshService.is_running
    scanning,      \* BluetoothMeshService.scanning
    eventTask,     \* TRUE once the scan event task has been spawned
    notifTasks,    \* devices whose notification task is alive
    pendingEvents, \* DeviceDiscovered events emitted, not yet handled
    lastNotif,     \* record of the last handle_notification call
    announcedOn,   \* per device: the peers that announced over its link
    downPeers,     \* peers whose link went down and who have not announced since
    \* ---- queries ----
    lastVerify,    \* record of the last verify_peer_fingerprint call
    lastHistory,   \* record of the last get_message_history call
    \* ---- bluetooth/mesh_service.rs: start and its tasks ----
    message_rx,    \* TRUE while message_rx still holds the receiver
    cleanupTask,   \* TRUE while the peer cleanup task is alive
    lastStart,     \* record of the last start() call
    \* ---- frames on their way from a link to process_message ----
    linkQueue,     \* per device: notifications delivered, not yet handled
    msgChannel,    \* the queue between message_tx and message_rx
    processed,     \* the frames process_message was called with, in order
    arrived,       \* per device: the frames that arrived, in order
    \* ---- decode of received bytes ----
    rxReads,       \* the indices of the input decode has read
    \* ---- ChannelCrypto called from concurrent tasks ----
    chanTask,      \* per task: the call in progress and its position
    \* ---- echoes of locally originated messages ----
    originated,    \* ids for which send_message has returned
    evicted        \* ids cleanup_cache has removed from message_cache

codecVars == <<pm, phase, viaBuilders, wire, decoded, pmTtlOp>>
objVars == <<bm, bmTtlOp>>
routerVars == <<messages, message_cache, task, calls, dispatchCount,
                relayCount, relaySeen, storeLog, removedAny, outbox, lastSend>>
noiseVars == <<sessions, now, pendingResp, expiredList, lastOp>>
linkVars == <<net, frameLog, started, simul>>
meshVars == <<connections, lastAttempt, lastBroadcast>>
chanVars == <<channel_keys, password_cache, chanOp>>
dirVars == <<peers, favorites, blocked_peers, clock, lastSweep>>
startVars == <<message_rx, cleanupTask, lastStart>>
svcVars == <<is_running, scanning, eventTask, notifTasks, pendingEvents,
             lastNotif, announcedOn, downPeers, startVars>>
queryVars == <<lastVerify, lastHistory>>
orderVars == <<linkQueue, msgChannel, processed, arrived>>
echoVars == <<originated, evicted>>
tailVars == <<orderVars, rxReads, chanTask, echoVars>>
extVars == <<dirVars, svcVars, queryVars, tailVars>>
vars == <<codecVars, objVars, routerVars, noiseVars, linkVars, meshVars, chanVars, extVars>>

----------------------------------------------------------------------------
(* Option<T>: None is the empty sequence, Some(x) the one-element sequence. *)
None == <<>>
Some(x) == <<x>>
IsSome(o) == Len(o) = 1
Unwrap(o) == o[1]

(* Peer ids are 8-byte arrays. *)
PeerA == <<1, 1, 1, 1, 1, 1, 1, 1>>
PeerB == <<2, 2, 2, 2, 2, 2, 2, 2>>
PeerIds == {PeerA, PeerB}

----------------------------------------------------------------------------
(*                     bluetooth/protocol.rs                               *)

PROTOCOL_VERSION == 1
MAX_PAYLOAD_SIZE == 512
MAX_TTL == 7
SIGNATURE_LEN == 64

WireTypes ==
    {"Announce", "Message", "DeliveryAck", "DeliveryRequest", "DeliveryStatus",
     "ChannelList", "NoiseInit", "NoiseResponse", "NoiseFinish", "ChannelJoin",
     "ChannelLeave", "ChannelPassword", "ChannelTransfer"}

(* `message_type as u8`: the discriminants of enum MessageType. *)
TypeToU8(t) ==
    CASE t = "Announce" -> 1
      [] t = "Message" -> 4
      [] t = "DeliveryAck" -> 10
      [] t = "DeliveryRequest" -> 11
      [] t = "DeliveryStatus" -> 12
      [] t = "ChannelList" -> 8
      [] t = "NoiseInit" -> 16
      [] t = "NoiseResponse" -> 17
      [] t = "NoiseFinish" -> 18
      [] t = "ChannelJoin" -> 20
      [] t = "ChannelLeave" -> 21
      [] t = "ChannelPassword" -> 22
      [] t = "ChannelTransfer" -> 23

(* impl From<u8> for MessageType, with its default fallback. *)
TypeFromU8(b) ==
    CASE b = 1 -> "Announce"
      [] b = 4 -> "Message"
      [] b = 10 -> "DeliveryAck"
      [] b = 11 -> "DeliveryRequest"
      [] b = 12 -> "DeliveryStatus"
      [] b = 8 -> "ChannelList"
      [] b = 16 -> "NoiseInit"
      [] b = 17 -> "NoiseResponse"
      [] b = 18 -> "NoiseFinish"
      [] b = 20 -> "ChannelJoin"
      [] b = 21 -> "ChannelLeave"
      [] b = 22 -> "ChannelPassword"
      [] b = 23 -> "ChannelTransfer"
      [] OTHER -> "Message"

(* A u64 is kept as four 16-bit limbs, most significant first: the model   *)
(* checker's integers are 32 bits wide.                                    *)
U64ToBeBytes(n) ==
    <<n[1] \div 256, n[1] % 256, n[2] \div 256, n[2] % 256,
      n[3] \div 256, n[3] % 256, n[4] \div 256, n[4] % 256>>

U64FromBeBytes(b) ==
    <<b[1] * 256 + b[2], b[3] * 256 + b[4], b[5] * 256 + b[6], b[7] * 256 + b[8]>>

(* `payload.len() as u16` followed by u16::to_be_bytes. *)
U16ToBeBytes(n) == <<(n % 65536) \div 256, n % 256>>

U16FromBeBytes(b) == b[1] * 256 + b[2]

BoolBit(b, w) == IF b THEN w ELSE 0

(* MessageFlags::new *)
FlagsNew ==
    [has_recipient |-> FALSE, has_signature |-> FALSE, is_compressed |-> FALSE,
     is_encrypted |-> FALSE, reserved |-> 0]

(* Mutant of FlagsToByte: the reserved nibble is cleared on the way out. *)
FlagsToByteClearsReserved(f) ==
    BoolBit(f.has_recipient, 1) + BoolBit(f.has_signature, 2)
    + BoolBit(f.is_compressed, 4) + BoolBit(f.is_encrypted, 8)

(* MessageFlags::to_byte: the four flag bits, then (reserved & 0x0F) << 4. *)
FlagsToByte(f) ==
    BoolBit(f.has_recipient, 1) + BoolBit(f.has_signature, 2)
    + BoolBit(f.is_compressed, 4) + BoolBit(f.is_encrypted, 8)
    + (f.reserved % 16) * 16

(* MessageFlags::from_byte *)
FlagsFromByte(byte) ==
    [has_recipient |-> (byte % 2) /= 0,
     has_signature |-> ((byte \div 2) % 2) /= 0,
     is_compressed |-> ((byte \div 4) % 2) /= 0,
     is_encrypted |-> ((byte \div 8) % 2) /= 0,
     reserved |-> (byte \div 16) % 16]

(* ProtocolMessage::new; u is the Uuid::new_v4() drawn, ts the clock read. *)
PMNew(message_type, sender_id, payload, ts, u) ==
    [id |-> u, version |-> PROTOCOL_VERSION, message_type |-> message_type,
     ttl |-> MAX_TTL, timestamp |-> ts, flags |-> FlagsNew,
     sender_id |-> sender_id, recipient_id |-> None, payload |-> payload,
     signature |-> None]

PMWithRecipient(m, recipient_id) ==
    [m EXCEPT !.recipient_id = Some(recipient_id), !.flags.has_recipient = TRUE]

PMWithCompression(m, compressed) == [m EXCEPT !.flags.is_compressed = compressed]

PMWithEncryption(m, encrypted) == [m EXCEPT !.flags.is_encrypted = encrypted]

PMWithSignature(m, signature) ==
    [m EXCEPT !.signature = Some(signature), !.flags.has_signature = TRUE]

(* ProtocolMessage::decrease_ttl with a wrapping subtraction and no check. *)
PMDecreaseTtlWraps(m) == Some([m EXCEPT !.ttl = (m.ttl + 255) % 256])

(* ProtocolMessage::decrease_ttl: Some(self with ttl - 1), or None at 0. *)
PMDecreaseTtlOf(m) ==
    IF m.ttl > 0 THEN Some([m EXCEPT !.ttl = m.ttl - 1]) ELSE None

(* ProtocolMessage::calculate_size *)
CalculateSize(m) ==
    13 + 8
    + (IF m.flags.has_recipient THEN 8 ELSE 0)
    + Len(m.payload)
    + (IF m.flags.has_signature THEN SIGNATURE_LEN ELSE 0)

(* ProtocolMessage::fits_in_ble_packet *)
FitsInBlePacket(m) == CalculateSize(m) <= MAX_PAYLOAD_SIZE

(* The buffer BitchatProtocol::encode builds before its size check. *)
EncodeBuffer(m) ==
    <<m.version, TypeToU8(m.message_type), m.ttl>>
    \o U64ToBeBytes(m.timestamp)
    \o <<FlagsToByte(m.flags)>>
    \o U16ToBeBytes(Len(m.payload))
    \o m.sender_id
    \o (IF IsSome(m.recipient_id) THEN Unwrap(m.recipient_id) ELSE <<>>)
    \o m.payload
    \o (IF IsSome(m.signature) THEN Unwrap(m.signature) ELSE <<>>)

(* Mutant of EncodeTooLarge: the size check is off by one. *)
EncodeTooLargeOffByOne(n) == n > MAX_PAYLOAD_SIZE + 1

(* encode's size check: buffer.len() > MAX_PAYLOAD_SIZE. *)
EncodeTooLarge(n) == n > MAX_PAYLOAD_SIZE

(* BitchatProtocol::encode: Ok(buffer), or Err when the buffer is too large. *)
Encode(m) ==
    LET buffer == EncodeBuffer(m)
    IN  IF EncodeTooLarge(Len(buffer))
        THEN [ok |-> FALSE, bytes |-> <<>>, err |-> "too large"]
        ELSE [ok |-> TRUE, bytes |-> buffer, err |-> ""]

DecodeErr(e) == [ok |-> FALSE, msg |-> <<>>, err |-> e]

(* BitchatProtocol::decode; u is the Uuid::new_v4() it draws for the result. *)
Decode(data, u) ==
    IF Len(data) < 13 THEN DecodeErr("too short")
    ELSE IF data[1] /= PROTOCOL_VERSION THEN DecodeErr("unsupported version")
    ELSE
    LET message_type == TypeFromU8(data[2])
        ttl == data[3]
        timestamp == U64FromBeBytes(SubSeq(data, 4, 11))
        flags == FlagsFromByte(data[12])
    IN
    IF 12 + 2 > Len(data) THEN DecodeErr("missing payload length")
    ELSE
    LET payload_len == U16FromBeBytes(SubSeq(data, 13, 14)) IN
    IF 14 + 8 > Len(data) THEN DecodeErr("missing sender ID")
    ELSE
    LET sender_id == SubSeq(data, 15, 22)
        off1 == 22
    IN
    IF flags.has_recipient /\ off1 + 8 > Len(data)
    THEN DecodeErr("missing recipient ID")
    ELSE
    LET recipient_id ==
            IF flags.has_recipient
            THEN Some(SubSeq(data, off1 + 1, off1 + 8)) ELSE None
        off2 == IF flags.has_recipient THEN off1 + 8 ELSE off1
    IN
    IF off2 + payload_len > Len(data)
    THEN DecodeErr("payload length mismatch")
    ELSE
    LET payload == SubSeq(data, off2 + 1, off2 + payload_len)
        off3 == off2 + payload_len
    IN
    IF flags.has_signature /\ off3 + SIGNATURE_LEN > Len(data)
    THEN DecodeErr("missing signature")
    ELSE
    LET signature ==
            IF flags.has_signature
            THEN Some(SubSeq(data, off3 + 1, off3 + SIGNATURE_LEN)) ELSE None
    IN  [ok |-> TRUE,
         msg |-> Some([id |-> u, version |-> data[1],
                       message_type |-> message_type, ttl |-> ttl,
                       timestamp |-> timestamp, flags |-> flags,
                       sender_id |-> sender_id, recipient_id |-> recipient_id,
                       payload |-> payload, signature |-> signature]),
         err |-> ""]

----------------------------------------------------------------------------
(*                 message/message_types.rs                                *)

MessageTypes ==
    {"Broadcast", "Private", "Channel", "System", "Announcement", "DeliveryReceipt"}

MessageStatuses == {"Draft", "Sending", "Sent", "Delivered", "Failed", "Expired"}

(* A BitchatMessage, reduced to the fields the router and the store read. *)
BMLiteral(id, sender_id, message_type, channel, recipient_id, is_encrypted, ttl, status, delivery_status) ==
    [id |-> id, sender_id |-> sender_id, message_type |-> message_type,
     channel |-> channel, recipient_id |-> recipient_id,
     is_encrypted |-> is_encrypted, ttl |-> ttl, hop_count |-> 0,
     status |-> status, delivery_status |-> delivery_status]

(* BitchatMessage::new_broadcast; id is the Uuid::new_v4() drawn. *)
NewBroadcast(id, sender_id) ==
    BMLiteral(id, sender_id, "Broadcast", None, None, FALSE, 7, "Draft", None)

(* BitchatMessage::new_private *)
NewPrivate(id, sender_id, recipient_id) ==
    BMLiteral(id, sender_id, "Private", None, Some(recipient_id), TRUE, 7,
              "Draft", Some("Pending"))

(* BitchatMessage::new_channel *)
NewChannel(id, sender_id, channel) ==
    BMLiteral(id, sender_id, "Channel", Some(channel), None, TRUE, 7, "Draft", None)

(* BitchatMessage::new_system: sender [0u8; 8], ttl 1, status Sent. *)
NewSystem(id) ==
    BMLiteral(id, <<0, 0, 0, 0, 0, 0, 0, 0>>, "System", None, None, FALSE, 1,
              "Sent", None)

(* BitchatMessage::set_status *)
BMSetStatusOf(m, status) == [m EXCEPT !.status = status]

(* BitchatMessage::decrease_ttl: the message afterwards and the bool returned. *)
BMDecreaseTtlOf(m) ==
    IF m.ttl > 0
    THEN [msg |-> [m EXCEPT !.ttl = m.ttl - 1, !.hop_count = m.hop_count + 1],
          ret |-> TRUE]
    ELSE [msg |-> m, ret |-> FALSE]

(* BitchatMessage::is_expired *)
IsExpired(m) == m.ttl = 0 \/ m.status = "Expired"

(* should_relay without its ttl test. *)
(* BitchatMessage::should_relay *)
ShouldRelay(m) ==
    /\ m.ttl > 0
    /\ m.message_type \notin {"System", "DeliveryReceipt"}
    /\ m.status \notin {"Failed", "Expired"}

----------------------------------------------------------------------------
(*                 bounds and input sets                                   *)

MaxUuid == 2          \* Uuid values the codec run draws from
MaxIds == 4           \* message ids offered to the store
max_messages == 2     \* MessageStorage.max_messages (10000 in the source)
MaxRouterIds == 2     \* message ids arriving at the router
MaxCalls == 3         \* process_incoming_message calls per run
MaxTasks == 2         \* tasks running process_incoming_message
MaxStoreCalls == 5    \* store_message calls per run of the store
MaxNow == 45          \* the clock stops here
MaxOpsIds == 2        \* message ids the store's callers use
MaxOps == 4           \* store_message calls per run of the store's callers
MaxDevices == 9       \* BLE devices in range
MaxClock == 135       \* the peer manager's clock stops here

Uuids == 1..MaxUuid
MsgIds == 1..MaxIds
RouterIds == 1..MaxRouterIds
Tasks == 1..MaxTasks

PayloadLens == {0, 418, 419, 490, 491}
PayloadOf(n) == [i \in 1..n |-> (i * 37 + 11) % 256]
Payloads == {PayloadOf(n) : n \in PayloadLens}
Timestamps == {<<0, 0, 25939, 61696>>, <<65535, 65535, 65535, 65535>>}
SignatureBytes == [i \in 1..SIGNATURE_LEN |-> (i * 3 + 1) % 256]

NoOp == [op |-> "none", peer |-> PeerA, ok |-> FALSE, replay |-> FALSE, hadLive |-> FALSE]
NoSend == [kind |-> "none", ok |-> FALSE, id |-> 0]
NoAttempt == [atCap |-> FALSE, attempted |-> FALSE, added |-> FALSE]
NoBroadcast == [called |-> FALSE, encoded |-> FALSE, eligible |-> 0, sends |-> 0]
NoChanOp == [enc |-> None, dec |-> None]
Channels == {"#a", "#b"}
NoTtlOp == [called |-> FALSE, ttlIn |-> 0, ttlOut |-> 0, ret |-> FALSE]
NoWire == [ok |-> FALSE, bytes |-> <<>>, err |-> "not encoded"]
NoDecoded == [ok |-> FALSE, msg |-> <<>>, err |-> "not decoded"]

----------------------------------------------------------------------------
(*                 initial states of the components                        *)

IdlePM == PMNew("Message", PeerA, <<>>, <<0, 0, 25939, 61696>>, 1)

CodecIdle ==
    /\ pm = IdlePM
    /\ phase = "build"
    /\ viaBuilders = TRUE
    /\ wire = NoWire
    /\ decoded = NoDecoded
    /\ pmTtlOp = NoTtlOp

ObjIdle ==
    /\ bm = NewSystem(1)
    /\ bmTtlOp = NoTtlOp

(* MessageStorage::new and MessageRouter::new *)
RouterInit ==
    /\ messages = <<>>
    /\ message_cache = <<>>
    /\ task = [t \in Tasks |-> [pc |-> "idle", msg |-> <<>>]]
    /\ calls = 0
    /\ dispatchCount = [i \in MsgIds |-> 0]
    /\ relayCount = [i \in MsgIds |-> 0]
    /\ relaySeen = {}
    /\ storeLog = <<>>
    /\ removedAny = FALSE
    /\ outbox = {}
    /\ lastSend = NoSend

(* NoiseEngine::new on both peers *)
NoiseInit ==
    /\ sessions = [p \in PeerIds |-> {}]
    /\ now = 0
    /\ pendingResp = {}
    /\ expiredList = [p \in PeerIds |-> {}]
    /\ lastOp = NoOp

LinkInit ==
    /\ net = {}
    /\ frameLog = <<>>
    /\ started = {}
    /\ simul = FALSE

(* BluetoothMeshService::new *)
MeshInit ==
    /\ connections = {}
    /\ lastAttempt = NoAttempt
    /\ lastBroadcast = NoBroadcast

(* ChannelCrypto::new *)
ChanInit ==
    /\ channel_keys = [c \in Channels |-> None]
    /\ password_cache = [c \in Channels |-> None]
    /\ chanOp = NoChanOp

PeerC == <<3, 3, 3, 3, 3, 3, 3, 3>>

(* The peers other than the node itself, and the devices the service of
   the node meets. *)
RemotePeers == {PeerB, PeerC}
SvcDevices == {1, 2}

NoSweep == [called |-> FALSE, was |-> {}, kept |-> {}, due |-> {}]
NoNotif == [called |-> FALSE, sender |-> PeerA, blocked |-> FALSE,
            forwarded |-> FALSE, dirChanged |-> FALSE, running |-> FALSE]
NoStart == [called |-> FALSE, ok |-> FALSE]
ChanTasks == {1, 2}
IdleCall == [op |-> "idle", pc |-> "idle", channel |-> "#a", password |-> <<>>, salt |-> <<>>]
NoVerify == [called |-> FALSE, result |-> FALSE, established |-> FALSE]
NoHistory ==
    [called |-> FALSE, scope |-> None, limit |-> 0, result |-> <<>>, of |-> <<>>]

(* PeerManager::new *)
DirInit ==
    /\ peers = [p \in RemotePeers |-> None]
    /\ favorites = {}
    /\ blocked_peers = {}
    /\ clock = 0
    /\ lastSweep = NoSweep

(* BluetoothMeshService::new: not running, no task spawned. *)
SvcInit ==
    /\ is_running = FALSE
    /\ scanning = FALSE
    /\ eventTask = FALSE
    /\ notifTasks = {}
    /\ pendingEvents = {}
    /\ lastNotif = NoNotif
    /\ announcedOn = [d \in SvcDevices |-> {}]
    /\ downPeers = {}
    /\ message_rx = TRUE
    /\ cleanupTask = FALSE
    /\ lastStart = NoStart

(* No frame has arrived on any link. *)
OrderInit ==
    /\ linkQueue = [d \in SvcDevices |-> <<>>]
    /\ msgChannel = <<>>
    /\ processed = <<>>
    /\ arrived = [d \in SvcDevices |-> <<>>]

ExtInit ==
    /\ DirInit
    /\ SvcInit
    /\ lastVerify = NoVerify
    /\ lastHistory = NoHistory
    /\ OrderInit
    /\ rxReads = {}
    /\ chanTask = [t \in ChanTasks |-> IdleCall]
    /\ originated = {}
    /\ evicted = {}

----------------------------------------------------------------------------
(*                 the codec run: build, encode, decode                    *)

(* A frame is built by ProtocolMessage::new from the caller's inputs. *)
InitCodec ==
    /\ \E t \in WireTypes, s \in PeerIds, pl \in Payloads, ts \in Timestamps :
           pm = PMNew(t, s, pl, ts, 1)
    /\ phase = "build"
    /\ viaBuilders = TRUE
    /\ wire = NoWire
    /\ decoded = NoDecoded
    /\ pmTtlOp = NoTtlOp
    /\ ObjIdle /\ RouterInit /\ NoiseInit /\ LinkInit /\ MeshInit /\ ChanInit /\ ExtInit

CodecFrame == <<viaBuilders, wire, decoded, pmTtlOp, objVars, routerVars,
                noiseVars, linkVars, meshVars, chanVars, extVars>>

WithRecipient ==
    /\ phase = "build"
    /\ \E r \in PeerIds : pm' = PMWithRecipient(pm, r)
    /\ UNCHANGED <<phase, CodecFrame>>

WithCompression ==
    /\ phase = "build"
    /\ \E b \in BOOLEAN : pm' = PMWithCompression(pm, b)
    /\ UNCHANGED <<phase, CodecFrame>>

WithEncryption ==
    /\ phase = "build"
    /\ \E b \in BOOLEAN : pm' = PMWithEncryption(pm, b)
    /\ UNCHANGED <<phase, CodecFrame>>

WithSignature ==
    /\ phase = "build"
    /\ pm' = PMWithSignature(pm, SignatureBytes)
    /\ UNCHANGED <<phase, CodecFrame>>

(* The fields of ProtocolMessage and MessageFlags are pub: a caller may    *)
(* assign one directly (as decode's own struct literal does). One such     *)
(* assignment per run; the frame is then no longer builder-made.           *)
FieldAssignments(m) ==
    {[m EXCEPT !.ttl = 0], [m EXCEPT !.ttl = 255],
     [m EXCEPT !.flags.reserved = 5], [m EXCEPT !.flags.reserved = 15],
     [m EXCEPT !.flags.reserved = 16],
     [m EXCEPT !.version = 2],
     [m EXCEPT !.recipient_id = Some(PeerB)],
     [m EXCEPT !.flags.has_signature = TRUE]}

AssignField ==
    /\ phase = "build"
    /\ viaBuilders
    /\ \E m \in FieldAssignments(pm) : m /= pm /\ pm' = m
    /\ viaBuilders' = FALSE
    /\ UNCHANGED <<phase, wire, decoded, pmTtlOp, objVars, routerVars,
                   noiseVars, linkVars, meshVars, chanVars, extVars>>

(* BitchatProtocol::encode(&pm) *)
EncodeAct ==
    /\ phase = "build"
    /\ wire' = Encode(pm)
    /\ phase' = "encoded"
    /\ UNCHANGED <<pm, viaBuilders, decoded, pmTtlOp, objVars, routerVars,
                   noiseVars, linkVars, meshVars, chanVars, extVars>>

(* BitchatProtocol::decode on the bytes encode returned. *)
DecodeAct ==
    /\ phase = "encoded"
    /\ wire.ok
    /\ \E u \in Uuids \ {pm.id} : decoded' = Decode(wire.bytes, u)
    /\ phase' = "decoded"
    /\ UNCHANGED <<pm, viaBuilders, wire, pmTtlOp, objVars, routerVars,
                   noiseVars, linkVars, meshVars, chanVars, extVars>>

NextCodec ==
    \/ WithRecipient
    \/ WithCompression
    \/ WithEncryption
    \/ WithSignature
    \/ AssignField
    \/ EncodeAct
    \/ DecodeAct

SpecCodec == InitCodec /\ [][NextCodec]_vars

----------------------------------------------------------------------------
(*                 properties of the codec                                 *)

(* The length of a frame on the wire, field by field: version, type, ttl,  *)
(* timestamp (8), flags, payload_len (2), sender id (8), recipient id (8)  *)
(* if present, the payload, the signature (64) if present.                 *)
WireLen(m) ==
    1 + 1 + 1 + 8 + 1 + 2 + 8
    + (IF IsSome(m.recipient_id) THEN 8 ELSE 0) + Len(m.payload)
    + (IF IsSome(m.signature) THEN 64 ELSE 0)

ValidFrame(m) ==
    /\ m.version = 1
    /\ m.flags.has_recipient <=> IsSome(m.recipient_id)
    /\ m.flags.has_signature <=> IsSome(m.signature)
    /\ m.flags.reserved \in 0..15
    /\ WireLen(m) <= 512

WireFieldsEqual(a, b) ==
    /\ a.version = b.version
    /\ a.message_type = b.message_type
    /\ a.ttl = b.ttl
    /\ a.timestamp = b.timestamp
    /\ a.flags = b.flags
    /\ a.sender_id = b.sender_id
    /\ a.recipient_id = b.recipient_id
    /\ a.payload = b.payload
    /\ a.signature = b.signature

(* C2: for every valid frame, decode(encode(f)) succeeds and returns a     *)
(* frame equal to f in every wire field (version, type, ttl, timestamp,    *)
(* all 8 flag bits, sender, recipient, payload, signature).                *)
C2_RoundTrip ==
    (phase = "decoded" /\ ValidFrame(pm)) =>
        /\ decoded.ok
        /\ WireFieldsEqual(Unwrap(decoded.msg), pm)

(* C2 witness: a valid frame with recipient, signature, payload and a      *)
(* non-zero reserved nibble went through encode and decode.                *)
C2_Witness ==
    /\ phase = "decoded"
    /\ ValidFrame(pm)
    /\ pm.flags.reserved = 15
    /\ IsSome(pm.recipient_id) /\ IsSome(pm.signature)
    /\ Len(pm.payload) = 418
    /\ decoded.ok

(* C3: a successful encode returns at most 512 bytes; a frame whose wire   *)
(* length exceeds 512 makes encode fail and return no bytes.               *)
C3_SizeCeiling ==
    (phase /= "build") =>
        /\ wire.ok => (Len(wire.bytes) <= 512 /\ Len(wire.bytes) = WireLen(pm))
        /\ WireLen(pm) > 512 => (~wire.ok /\ wire.bytes = <<>>)

(* C3 witness: encode refused a frame of 513 bytes. *)
C3_Witness ==
    /\ phase = "encoded"
    /\ WireLen(pm) = 513
    /\ ~wire.ok

(* C4: for a message made by ProtocolMessage::new and the with_* builders, *)
(* the encoded length equals calculate_size = 13 + 8 + 8 if has_recipient  *)
(* + payload length + 64 if has_signature, and fits_in_ble_packet holds    *)
(* exactly when encode succeeds.                                           *)
C4_SizeAgrees ==
    (viaBuilders /\ phase /= "build") =>
        /\ CalculateSize(pm) = Len(EncodeBuffer(pm))
        /\ CalculateSize(pm) =
               13 + 8 + (IF pm.flags.has_recipient THEN 8 ELSE 0)
               + Len(pm.payload) + (IF pm.flags.has_signature THEN 64 ELSE 0)
        /\ wire.ok => Len(wire.bytes) = CalculateSize(pm)
        /\ FitsInBlePacket(pm) <=> wire.ok

----------------------------------------------------------------------------
(*                 message/storage.rs                                      *)

RECURSIVE EnforceLimit(_)
(* store_message's `while messages.len() > self.max_messages { pop_front }` *)
EnforceLimit(q) == IF Len(q) > max_messages THEN EnforceLimit(Tail(q)) ELSE q

HasId(q, id) == \E i \in 1..Len(q) : q[i].id = id

(* store_message that never evicts. *)
StoreMessageNoLimit(q, m) == IF HasId(q, m.id) THEN q ELSE Append(q, m)

StoreMessageNoDedup(q, m) == EnforceLimit(Append(q, m))

(* MessageStorage::store_message, under the write lock of `messages`. *)
StoreMessageOf(q, m) ==
    IF HasId(q, m.id) THEN q ELSE EnforceLimit(Append(q, m))

(* messages.iter().position(|msg| &msg.id == message_id) *)
Position(q, id) == CHOOSE i \in 1..Len(q) : q[i].id = id /\ \A j \in 1..(i - 1) : q[j].id /= id

(* MessageStorage::delete_message *)
DeleteMessageOf(q, id) ==
    IF HasId(q, id)
    THEN LET pos == Position(q, id)
         IN  SubSeq(q, 1, pos - 1) \o SubSeq(q, pos + 1, Len(q))
    ELSE q

StoreFrame == <<codecVars, objVars, message_cache, task, calls, dispatchCount,
                relayCount, relaySeen, outbox, lastSend, noiseVars, linkVars, meshVars, chanVars, extVars>>

(* A direct store_message(&m) call (send_message, import_messages, ...). *)
StoreCall(m) ==
    /\ Len(storeLog) < MaxStoreCalls
    /\ messages' = StoreMessageOf(messages, m)
    /\ storeLog' = Append(storeLog, m.id)
    /\ UNCHANGED <<removedAny, StoreFrame>>

(* delete_message(&id) *)
DeleteCall(id) ==
    /\ messages' = DeleteMessageOf(messages, id)
    /\ removedAny' = TRUE
    /\ UNCHANGED <<storeLog, StoreFrame>>

(* clear_all_messages() *)
ClearAllCall ==
    /\ messages' = <<>>
    /\ removedAny' = TRUE
    /\ UNCHANGED <<storeLog, StoreFrame>>

StoreMsgs == {NewBroadcast(i, PeerA) : i \in MsgIds}

InitStore == CodecIdle /\ ObjIdle /\ RouterInit /\ NoiseInit /\ LinkInit /\ MeshInit /\ ChanInit /\ ExtInit

NextStore ==
    \/ \E m \in StoreMsgs : StoreCall(m)
    \/ \E id \in MsgIds : DeleteCall(id)
    \/ ClearAllCall

SpecStore == InitStore /\ [][NextStore]_vars

----------------------------------------------------------------------------
(*                 message/router.rs: process_incoming_message             *)

(* The frames a type handler (handle_private_message, handle_channel_message,
   handle_broadcast_message, handle_system_message, handle_announcement,
   handle_delivery_receipt) hands to the mesh service for message m: none,
   each handler logs and returns Ok. *)
HandlerSends(m) == {}

(* The frames consider_relay hands to the mesh service for message m: none,
   it logs and returns Ok. *)
ConsiderRelaySends(m) == {}

(* An insert that leaves the cache as it was. *)
CacheInsertDropped(c, m) == c

(* HashMap::insert on message_cache. *)
CacheInsert(c, m) ==
    [x \in (DOMAIN c) \cup {m.id} |-> IF x = m.id THEN m ELSE c[x]]

TaskFrame == <<codecVars, objVars, noiseVars, linkVars, meshVars, chanVars, extVars>>

(* Entry and the seen check: message_cache.read().await.contains_key(id).  *)
(* A seen message returns at once; the read guard is dropped either way.   *)
Begin(t, m) ==
    /\ task[t].pc = "idle"
    /\ calls < MaxCalls
    /\ calls' = calls + 1
    /\ task' = IF m.id \in DOMAIN message_cache
               THEN task
               ELSE [task EXCEPT ![t] = [pc |-> "store", msg |-> Some(m)]]
    /\ UNCHANGED <<messages, message_cache, dispatchCount, relayCount,
                   relaySeen, storeLog, removedAny, outbox, lastSend, TaskFrame>>

(* self.storage.store_message(&message).await *)
StoreStep(t) ==
    /\ task[t].pc = "store"
    /\ LET m == Unwrap(task[t].msg)
       IN  /\ messages' = StoreMessageOf(messages, m)
           /\ storeLog' = Append(storeLog, m.id)
    /\ task' = [task EXCEPT ![t].pc = "cache"]
    /\ UNCHANGED <<message_cache, calls, dispatchCount, relayCount, relaySeen,
                   removedAny, outbox, lastSend, TaskFrame>>

(* self.message_cache.write().await.insert(message.id, message.clone()) *)
CacheStep(t) ==
    /\ task[t].pc = "cache"
    /\ message_cache' = CacheInsert(message_cache, Unwrap(task[t].msg))
    /\ task' = [task EXCEPT ![t].pc = "dispatch"]
    /\ UNCHANGED <<messages, calls, dispatchCount, relayCount, relaySeen,
                   storeLog, removedAny, outbox, lastSend, TaskFrame>>

(* match message.message_type { .. => self.handle_*(&message).await? } *)
DispatchStep(t) ==
    /\ task[t].pc = "dispatch"
    /\ LET m == Unwrap(task[t].msg)
       IN  /\ m.message_type \in MessageTypes
           /\ dispatchCount' = [dispatchCount EXCEPT ![m.id] = @ + 1]
           /\ outbox' = outbox \cup HandlerSends(m)
    /\ task' = [task EXCEPT ![t].pc = "relay"]
    /\ UNCHANGED <<messages, message_cache, calls, relayCount, relaySeen,
                   storeLog, removedAny, lastSend, TaskFrame>>

(* if message.should_relay() { self.consider_relay(&message).await? }; Ok(()) *)
RelayStep(t) ==
    /\ task[t].pc = "relay"
    /\ LET m == Unwrap(task[t].msg)
       IN  IF ShouldRelay(m)
           THEN /\ relayCount' = [relayCount EXCEPT ![m.id] = @ + 1]
                /\ relaySeen' = relaySeen \cup {m}
                /\ outbox' = outbox \cup ConsiderRelaySends(m)
           ELSE UNCHANGED <<relayCount, relaySeen, outbox>>
    /\ task' = [task EXCEPT ![t] = [pc |-> "idle", msg |-> None]]
    /\ UNCHANGED <<messages, message_cache, calls, dispatchCount, storeLog,
                   removedAny, lastSend, TaskFrame>>

(* Messages arriving from the mesh. *)
IncomingMsgs ==
    {BMLiteral(i, PeerB, ty, None, None, FALSE, ttl, "Sent", None) :
        i \in RouterIds, ty \in MessageTypes, ttl \in {0, MAX_TTL}}

Init == CodecIdle /\ ObjIdle /\ RouterInit /\ NoiseInit /\ LinkInit /\ MeshInit /\ ChanInit /\ ExtInit

Next ==
    \/ \E t \in Tasks, m \in IncomingMsgs : Begin(t, m)
    \/ \E t \in Tasks : StoreStep(t)
    \/ \E t \in Tasks : CacheStep(t)
    \/ \E t \in Tasks : DispatchStep(t)
    \/ \E t \in Tasks : RelayStep(t)

Spec == Init /\ [][Next]_vars

----------------------------------------------------------------------------
(*                 properties of the store and the router                  *)

AllIdle == \A t \in Tasks : task[t].pc = "idle"

StoredCount(id) == Cardinality({i \in 1..Len(messages) : messages[i].id = id})

(* C1: however often and however interleaved the same message arrives, it  *)
(* is stored exactly once, dispatched to its type handler exactly once,    *)
(* and consider_relay is called for at most one of the arrivals.           *)
C1_DedupExactlyOnce ==
    \A id \in RouterIds :
        /\ StoredCount(id) <= 1
        /\ dispatchCount[id] <= 1
        /\ relayCount[id] <= 1
        /\ (AllIdle /\ id \in DOMAIN message_cache) =>
               (StoredCount(id) = 1 /\ dispatchCount[id] = 1)

Ids(q) == [i \in 1..Len(q) |-> q[i].id]

Distinct(l) == \A i, j \in 1..Len(l) : i /= j => l[i] /= l[j]

LastN(l, n) == SubSeq(l, Len(l) - n + 1, Len(l))

Min(a, b) == IF a <= b THEN a ELSE b

(* C10: the store never holds more than max_messages messages; after       *)
(* store_message calls with pairwise distinct ids (and no deletion), it    *)
(* holds exactly the newest max_messages of them, in insertion order, so   *)
(* after max_messages + k calls the k oldest are gone.                     *)
C10_StoreBound ==
    /\ Len(messages) <= max_messages
    /\ (~removedAny /\ Distinct(storeLog)) =>
           Ids(messages) = LastN(storeLog, Min(Len(storeLog), max_messages))

(* C10 witness: max_messages + 2 messages with distinct ids were stored,   *)
(* the two oldest were evicted.                                            *)
C10_Witness ==
    /\ ~removedAny
    /\ Distinct(storeLog)
    /\ Len(storeLog) = max_messages + 2
    /\ Len(messages) = max_messages
    /\ ~HasId(messages, storeLog[1])
    /\ ~HasId(messages, storeLog[2])

----------------------------------------------------------------------------
(*                 hop budget: decrease_ttl and the relay decision         *)

(* frame = frame.decrease_ttl() on the frame being forwarded *)
PMDecreaseTtl ==
    /\ phase = "build"
    /\ LET r == PMDecreaseTtlOf(pm)
       IN  /\ pm' = IF IsSome(r) THEN Unwrap(r) ELSE pm
           /\ pmTtlOp' = [called |-> TRUE, ttlIn |-> pm.ttl,
                          ttlOut |-> IF IsSome(r) THEN Unwrap(r).ttl ELSE pm.ttl,
                          ret |-> IsSome(r)]
    /\ UNCHANGED <<phase, viaBuilders, wire, decoded, objVars, routerVars,
                   noiseVars, linkVars, meshVars, chanVars, extVars>>

(* bm.decrease_ttl() on the message being forwarded *)
BMDecreaseTtl ==
    /\ LET r == BMDecreaseTtlOf(bm)
       IN  /\ bm' = r.msg
           /\ bmTtlOp' = [called |-> TRUE, ttlIn |-> bm.ttl,
                          ttlOut |-> r.msg.ttl, ret |-> r.ret]
    /\ UNCHANGED <<codecVars, routerVars, noiseVars, linkVars, meshVars, chanVars, extVars>>

(* bm.set_status(status) *)
BMSetStatus ==
    /\ \E st \in MessageStatuses : bm' = BMSetStatusOf(bm, st)
    /\ UNCHANGED <<bmTtlOp, codecVars, routerVars, noiseVars, linkVars, meshVars, chanVars, extVars>>

(* Messages as their constructors make them; Announcement and              *)
(* DeliveryReceipt have no constructor and come from from_json.            *)
ConstructedMsgs ==
    {NewBroadcast(1, PeerA), NewPrivate(1, PeerA, PeerB),
     NewChannel(1, PeerA, "#t"), NewSystem(1),
     BMLiteral(1, PeerB, "Announcement", None, None, FALSE, MAX_TTL, "Sent", None),
     BMLiteral(1, PeerB, "DeliveryReceipt", None, None, FALSE, MAX_TTL, "Sent", None)}

InitTtl ==
    /\ pm = IdlePM
    /\ phase = "build"
    /\ viaBuilders = TRUE
    /\ wire = NoWire
    /\ decoded = NoDecoded
    /\ pmTtlOp = NoTtlOp
    /\ bm \in ConstructedMsgs
    /\ bmTtlOp = NoTtlOp
    /\ RouterInit /\ NoiseInit /\ LinkInit /\ MeshInit /\ ChanInit /\ ExtInit

(* process_incoming_message takes the message by value: once bm has been   *)
(* handed over (calls > 0) its former owner can neither change it nor hand *)
(* it over again.                                                          *)
NextTtl ==
    \/ PMDecreaseTtl
    \/ (calls = 0 /\ BMDecreaseTtl)
    \/ (calls = 0 /\ BMSetStatus)
    \/ (calls = 0 /\ \E t \in Tasks : Begin(t, bm))
    \/ \E t \in Tasks : StoreStep(t)
    \/ \E t \in Tasks : CacheStep(t)
    \/ \E t \in Tasks : DispatchStep(t)
    \/ \E t \in Tasks : RelayStep(t)

SpecTtl == InitTtl /\ [][NextTtl]_vars

TtlOpRight(op) ==
    op.called =>
        /\ op.ttlIn > 0 => (op.ret /\ op.ttlOut = op.ttlIn - 1)
        /\ op.ttlIn = 0 => (~op.ret /\ op.ttlOut = 0)

----------------------------------------------------------------------------
(*                     crypto/noise_protocol.rs                            *)

HANDSHAKE_TIMEOUT_SECS == 30

NoiseHandshakeStates ==
    {"Uninitialized", "InitiatorSendingInit", "InitiatorWaitingResponse",
     "InitiatorSendingFinish", "ResponderWaitingInit",
     "ResponderSendingResponse", "ResponderWaitingFinish", "Complete",
     "Failed"}

ResponderStates ==
    {"ResponderWaitingInit", "ResponderSendingResponse",
     "ResponderWaitingFinish"}

(* The message_type bytes process_handshake_message is called with: the
   three handshake types and one type that is not a handshake type. *)
HandshakeTypeBytes ==
    {TypeToU8("NoiseInit"), TypeToU8("NoiseResponse"), TypeToU8("NoiseFinish"),
     TypeToU8("Message")}

Ciphertexts == {"c1"}

(* The clock advances in steps of half the handshake timeout. *)
TickStep == HANDSHAKE_TIMEOUT_SECS \div 2

(* NoiseSession::new_initiator / new_responder at clock value t.  The field
   `accepted` is history: the ciphertexts decrypt_message has returned Ok for
   on this session. *)
NewInitiator(peer_id, t) ==
    [peer_id |-> peer_id, state |-> "Uninitialized", created_at |-> t,
     accepted |-> {}]

NewResponder(peer_id, t) ==
    [peer_id |-> peer_id, state |-> "ResponderWaitingInit", created_at |-> t,
     accepted |-> {}]

InitializeHandshake(s) == [s EXCEPT !.state = "InitiatorSendingInit"]

(* NoiseSession::is_expired at clock value t. *)
SessionIsExpired(s, t) == t - s.created_at > HANDSHAKE_TIMEOUT_SECS

(* A session that is neither Failed nor timed out. *)
Live(s, t) == s.state /= "Failed" /\ ~SessionIsExpired(s, t)

(* The DashMap of an engine is the set S of its entries; the key of an entry
   is its peer_id. *)
HasSession(S, p) == \E x \in S : x.peer_id = p
SessionOf(S, p) == CHOOSE x \in S : x.peer_id = p

SessionsInsertKeepsOld(S, s) == S \cup {s}

(* DashMap::insert: the entry under the key is replaced. *)
SessionsInsert(S, s) == {x \in S : x.peer_id /= s.peer_id} \cup {s}

(* DashMap::remove *)
SessionsRemove(S, p) == {x \in S : x.peer_id /= p}

(* The write through the guard that get_mut returns. *)
SessionsUpdate(S, old, new) == (S \ {old}) \cup {new}

(* process_handshake_message, arm taken on an existing session. *)
StateAfterHandshake(s, ty) ==
    CASE ty = TypeToU8("NoiseInit") -> "ResponderSendingResponse"
      [] ty = TypeToU8("NoiseResponse") -> "InitiatorSendingFinish"
      [] ty = TypeToU8("NoiseFinish") -> "Complete"
      [] OTHER -> s.state

(* The reply process_handshake_message returns on an existing session. *)
HandshakeReply(ty) ==
    CASE ty = TypeToU8("NoiseInit") -> Some("NOISE_RESPONSE")
      [] ty = TypeToU8("NoiseResponse") -> Some("NOISE_FINISH")
      [] OTHER -> None

HandshakeOk(ty) ==
    ty \in {TypeToU8("NoiseInit"), TypeToU8("NoiseResponse"),
            TypeToU8("NoiseFinish")}

(* decrypt_message without the test of the handshake state. *)
SessionDecryptOkAnyState(s) == s.state /= "Failed"

(* NoiseSession::decrypt_message *)
SessionDecryptOk(s) == s.state = "Complete"

OpRecord(op, p, ok, replay, hadLive) ==
    [op |-> op, peer |-> p, ok |-> ok, replay |-> replay, hadLive |-> hadLive]

(* NoiseEngine::start_handshake(peer_id = p) on engine e *)
StartHandshakeCore(e, p) ==
    /\ sessions' = [sessions EXCEPT
           ![e] = SessionsInsert(@, InitializeHandshake(NewInitiator(p, now)))]
    /\ lastOp' = OpRecord("start", p, TRUE, FALSE,
                          \E x \in sessions[e] : x.peer_id = p /\ Live(x, now))
    /\ UNCHANGED <<now, pendingResp, expiredList>>
    /\ UNCHANGED <<codecVars, objVars, routerVars>>

(* NoiseEngine::process_handshake_message(p, _, ty) on engine e, up to the
   point where the lookup has missed: the insert of the responder session is
   a later step, the map is not locked in between. *)
ProcessHandshakeCore(e, p, ty) ==
    /\ IF HasSession(sessions[e], p)
       THEN LET s == SessionOf(sessions[e], p) IN
            /\ sessions' = [sessions EXCEPT ![e] = SessionsUpdate(@, s,
                   [s EXCEPT !.state = StateAfterHandshake(s, ty)])]
            /\ lastOp' = OpRecord("process", p, HandshakeOk(ty), FALSE, FALSE)
            /\ UNCHANGED pendingResp
       ELSE /\ UNCHANGED sessions
            /\ lastOp' = OpRecord("process", p, ty = TypeToU8("NoiseInit"),
                                  FALSE, FALSE)
            /\ pendingResp' = IF ty = TypeToU8("NoiseInit")
                              THEN pendingResp \cup {<<e, p>>}
                              ELSE pendingResp
    /\ UNCHANGED <<now, expiredList>>
    /\ UNCHANGED <<codecVars, objVars, routerVars>>

(* ... the insert of the new responder session, and the reply. *)
ProcessInsertCore(e, p) ==
    /\ <<e, p>> \in pendingResp
    /\ pendingResp' = pendingResp \ {<<e, p>>}
    /\ sessions' = [sessions EXCEPT ![e] = SessionsInsert(@,
           [NewResponder(p, now) EXCEPT !.state = "ResponderSendingResponse"])]
    /\ UNCHANGED <<now, expiredList, lastOp>>
    /\ UNCHANGED <<codecVars, objVars, routerVars>>

(* cleanup_expired_sessions, first loop: collect the expired keys. *)
CleanupCollect(e) ==
    /\ expiredList[e] = {}
    /\ \E x \in sessions[e] : SessionIsExpired(x, now)
    /\ expiredList' = [expiredList EXCEPT
           ![e] = {x.peer_id : x \in {y \in sessions[e] : SessionIsExpired(y, now)}}]
    /\ UNCHANGED <<sessions, now, pendingResp, lastOp>>
    /\ UNCHANGED <<codecVars, objVars, routerVars, linkVars, meshVars, chanVars, extVars>>

(* cleanup_expired_sessions, second loop: remove one collected key. *)
CleanupRemove(e, p) ==
    /\ p \in expiredList[e]
    /\ expiredList' = [expiredList EXCEPT ![e] = @ \ {p}]
    /\ sessions' = [sessions EXCEPT ![e] = SessionsRemove(@, p)]
    /\ UNCHANGED <<now, pendingResp, lastOp>>
    /\ UNCHANGED <<codecVars, objVars, routerVars, linkVars, meshVars, chanVars, extVars>>

Tick ==
    /\ now + TickStep <= MaxNow
    /\ now' = now + TickStep
    /\ UNCHANGED <<sessions, pendingResp, expiredList, lastOp>>
    /\ UNCHANGED <<codecVars, objVars, routerVars, linkVars, meshVars, chanVars, extVars>>

(* NoiseEngine::encrypt_message(p, _) on engine e *)
EncryptMessage(e, p) ==
    /\ lastOp' = OpRecord("encrypt", p,
                          /\ HasSession(sessions[e], p)
                          /\ SessionOf(sessions[e], p).state = "Complete",
                          FALSE, FALSE)
    /\ UNCHANGED <<sessions, now, pendingResp, expiredList>>
    /\ UNCHANGED <<codecVars, objVars, routerVars, linkVars, meshVars, chanVars, extVars>>

(* NoiseEngine::decrypt_message(p, c) on engine e *)
DecryptMessage(e, p, c) ==
    /\ IF HasSession(sessions[e], p)
       THEN LET s == SessionOf(sessions[e], p) IN
            /\ sessions' = [sessions EXCEPT ![e] =
                   IF SessionDecryptOk(s)
                   THEN SessionsUpdate(@, s,
                            [s EXCEPT !.accepted = @ \cup {c}])
                   ELSE @]
            /\ lastOp' = OpRecord("decrypt", p, SessionDecryptOk(s),
                                  c \in s.accepted, FALSE)
       ELSE /\ UNCHANGED sessions
            /\ lastOp' = OpRecord("decrypt", p, FALSE, FALSE, FALSE)
    /\ UNCHANGED <<now, pendingResp, expiredList>>
    /\ UNCHANGED <<codecVars, objVars, routerVars, linkVars, meshVars, chanVars, extVars>>

(* One engine, called in any order and interleaving. *)
Local == PeerA

StartHandshake(p) == StartHandshakeCore(Local, p) /\ UNCHANGED <<linkVars, meshVars, chanVars, extVars>>

ProcessHandshakeMessage(p, ty) ==
    ProcessHandshakeCore(Local, p, ty) /\ UNCHANGED <<linkVars, meshVars, chanVars, extVars>>

ProcessHandshakeInsert(p) == ProcessInsertCore(Local, p) /\ UNCHANGED <<linkVars, meshVars, chanVars, extVars>>

InitNoise ==
    /\ CodecIdle /\ ObjIdle /\ RouterInit /\ NoiseInit /\ LinkInit /\ MeshInit /\ ChanInit /\ ExtInit

NextNoise ==
    \/ \E p \in PeerIds : StartHandshake(p)
    \/ \E p \in PeerIds, ty \in HandshakeTypeBytes : ProcessHandshakeMessage(p, ty)
    \/ \E p \in PeerIds : ProcessHandshakeInsert(p)
    \/ CleanupCollect(Local)
    \/ \E p \in PeerIds : CleanupRemove(Local, p)
    \/ Tick
    \/ \E p \in PeerIds : EncryptMessage(Local, p)
    \/ \E p \in PeerIds, c \in Ciphertexts : DecryptMessage(Local, p, c)

SpecNoise == InitNoise /\ [][NextNoise]_vars

(* C6: each remote PeerId has at most one session that is neither Failed nor
   expired, whatever the order and interleaving of start_handshake,
   process_handshake_message and cleanup_expired_sessions. *)
C6_OneLiveSession ==
    \A e \in PeerIds, p \in PeerIds :
        Cardinality({x \in sessions[e] : x.peer_id = p /\ Live(x, now)}) <= 1

(* A second start_handshake for a peer that had a live session, after which
   the peer has exactly one live session. *)
C6_Witness ==
    /\ lastOp.op = "start" /\ lastOp.hadLive
    /\ Cardinality({x \in sessions[Local] :
                       x.peer_id = lastOp.peer /\ Live(x, now)}) = 1

(* C9: on a Complete session, decrypting a ciphertext that the session has
   already accepted fails and leaves the session Failed. *)
C9_ReplayRejected ==
    (lastOp.op = "decrypt" /\ lastOp.replay) =>
        /\ ~lastOp.ok
        /\ \A x \in sessions[Local] :
               x.peer_id = lastOp.peer => x.state = "Failed"

----------------------------------------------------------------------------
(*     two engines, each handshake reply sent to the peer as a frame       *)

Other(e) == IF e = PeerA THEN PeerB ELSE PeerA

Frame(src, dst, ty) == [src |-> src, dst |-> dst, ty |-> ty]

(* The frame type a reply of process_handshake_message travels as. *)
ReplyType(reply) ==
    IF reply = "NOISE_RESPONSE" THEN TypeToU8("NoiseResponse")
    ELSE TypeToU8("NoiseFinish")

(* The lexicographic order of two peer ids. *)
RECURSIVE LexLess(_, _)
LexLess(a, b) ==
    IF a = <<>> \/ b = <<>> THEN a = <<>> /\ b /= <<>>
    ELSE IF Head(a) /= Head(b) THEN Head(a) < Head(b)
    ELSE LexLess(Tail(a), Tail(b))

(* Peer e calls start_handshake for the other peer and sends the Init. *)
HsStart(e) ==
    /\ e \notin started
    /\ StartHandshakeCore(e, Other(e))
    /\ net' = net \cup {Frame(e, Other(e), TypeToU8("NoiseInit"))}
    /\ frameLog' = Append(frameLog, TypeToU8("NoiseInit"))
    /\ started' = started \cup {e}
    /\ simul' = (simul \/ Frame(Other(e), e, TypeToU8("NoiseInit")) \in net)
    /\ UNCHANGED <<meshVars, chanVars, extVars>>

(* A frame in flight arrives: its receiver calls process_handshake_message
   and sends the reply, if the call returned one. *)
HsDeliver(f) ==
    /\ f \in net
    /\ ProcessHandshakeCore(f.dst, f.src, f.ty)
    /\ LET reply == IF HasSession(sessions[f.dst], f.src)
                    THEN HandshakeReply(f.ty) ELSE None IN
       IF IsSome(reply)
       THEN /\ net' = (net \ {f}) \cup
                          {Frame(f.dst, f.src, ReplyType(Unwrap(reply)))}
            /\ frameLog' = Append(frameLog, ReplyType(Unwrap(reply)))
       ELSE /\ net' = net \ {f}
            /\ UNCHANGED frameLog
    /\ UNCHANGED <<started, simul, meshVars, chanVars, extVars>>

(* The receiver of an Init from an unknown peer inserts its responder session
   and sends the Response. *)
HsInsert(e) ==
    /\ ProcessInsertCore(e, Other(e))
    /\ net' = net \cup {Frame(e, Other(e), TypeToU8("NoiseResponse"))}
    /\ frameLog' = Append(frameLog, TypeToU8("NoiseResponse"))
    /\ UNCHANGED <<started, simul, meshVars, chanVars, extVars>>

InitHandshake ==
    /\ CodecIdle /\ ObjIdle /\ RouterInit /\ NoiseInit /\ LinkInit /\ MeshInit /\ ChanInit /\ ExtInit

NextHandshake ==
    \/ \E e \in PeerIds : HsStart(e)
    \/ \E f \in net : HsDeliver(f)
    \/ \E e \in PeerIds : HsInsert(e)
    \/ Tick

SpecHandshake == InitHandshake /\ [][NextHandshake]_vars

(* Every frame sent has been delivered and handled. *)
Quiescent == net = {} /\ pendingResp = {}

StateOfSession(e) ==
    IF HasSession(sessions[e], Other(e))
    THEN SessionOf(sessions[e], Other(e)).state
    ELSE "none"

(* C7: A alone starts a handshake with B; once NoiseInit, NoiseResponse and
   NoiseFinish have been exchanged and delivered, A's session for B and B's
   session for A are both Complete. *)
C7_BothComplete ==
    (/\ started = {PeerA}
     /\ Quiescent
     /\ frameLog = <<TypeToU8("NoiseInit"), TypeToU8("NoiseResponse"),
                     TypeToU8("NoiseFinish")>>)
        => (StateOfSession(PeerA) = "Complete" /\ StateOfSession(PeerB) = "Complete")

(* C8: when both peers start before either has received the other's Init,
   the peer with the smaller id never takes a responder state, and once all
   frames are delivered both sessions are Complete. *)
C8_TieBreak ==
    simul =>
        \A e \in PeerIds :
            /\ LexLess(e, Other(e)) => StateOfSession(e) \notin ResponderStates
            /\ Quiescent => StateOfSession(e) = "Complete"

----------------------------------------------------------------------------
(*     message/storage.rs: status updates and import beside store/delete   *)

(* BitchatMessage::set_delivery_status *)
BMSetDeliveryStatusOf(m, ds) == [m EXCEPT !.delivery_status = Some(ds)]

(* MessageStorage::update_message_status: iter_mut().find, set_status *)
UpdateMessageStatusOf(q, id, st) ==
    IF HasId(q, id)
    THEN [q EXCEPT ![Position(q, id)] = BMSetStatusOf(@, st)]
    ELSE q

(* MessageStorage::update_delivery_status: iter_mut().find, set_delivery_status *)
UpdateDeliveryStatusOf(q, id, ds) ==
    IF HasId(q, id)
    THEN [q EXCEPT ![Position(q, id)] = BMSetDeliveryStatusOf(@, ds)]
    ELSE q

OpsIds == 1..MaxOpsIds

(* What callers hand to store_message, and what import_messages parses. *)
OpsMsgs == {NewBroadcast(i, PeerA) : i \in OpsIds}
ImportedMsgs == {BMSetStatusOf(m, "Sent") : m \in OpsMsgs}

(* store_message(&m) by one of the callers *)
OpsStore(m) ==
    /\ Len(storeLog) < MaxOps
    /\ StoreCall(m)

(* One turn of the loop of import_messages: store_message(&message) on a
   parsed message.  The lock is taken per turn, other callers run between. *)
ImportCall(m) ==
    /\ Len(storeLog) < MaxOps
    /\ StoreCall(m)

(* update_message_status(&id, status) *)
UpdateMessageStatusCall(id, st) ==
    /\ messages' = UpdateMessageStatusOf(messages, id, st)
    /\ UNCHANGED <<storeLog, removedAny, StoreFrame>>

(* update_delivery_status(&id, delivery_status) *)
UpdateDeliveryStatusCall(id, ds) ==
    /\ messages' = UpdateDeliveryStatusOf(messages, id, ds)
    /\ UNCHANGED <<storeLog, removedAny, StoreFrame>>

InitStoreOps == CodecIdle /\ ObjIdle /\ RouterInit /\ NoiseInit /\ LinkInit /\ MeshInit /\ ChanInit /\ ExtInit

NextStoreOps ==
    \/ \E m \in OpsMsgs : OpsStore(m)
    \/ \E m \in ImportedMsgs : ImportCall(m)
    \/ \E id \in OpsIds : DeleteCall(id)
    \/ \E id \in OpsIds : UpdateMessageStatusCall(id, "Sent")
    \/ \E id \in OpsIds, ds \in {"Delivered", "Read"} : UpdateDeliveryStatusCall(id, ds)

SpecStoreOps == InitStoreOps /\ [][NextStoreOps]_vars

(* The step is a store_message call with an id the store holds. *)
StoreOfPresentId ==
    /\ Len(storeLog') = Len(storeLog) + 1
    /\ HasId(messages, storeLog'[Len(storeLog')])

(* C11: no message id occurs twice in the store, whatever the order of
   store_message, import_messages, delete_message, update_message_status and
   update_delivery_status calls; a store_message with an id already present
   leaves the store unchanged. *)
C11_UniqueIds ==
    /\ []Distinct(Ids(messages))
    /\ [][StoreOfPresentId => messages' = messages]_vars

(* An id was offered twice, with different contents, while stored; the
   stored message has had its status and delivery status updated. *)
C11_Witness ==
    /\ \E i, j \in 1..Len(storeLog) : i < j /\ storeLog[i] = storeLog[j]
    /\ ~removedAny
    /\ Len(messages) = max_messages
    /\ \E i \in 1..Len(messages) :
           /\ messages[i].status = "Sent"
           /\ messages[i].delivery_status = Some("Delivered")

(* C18: an update to Delivered sets the delivery status of the stored
   message to Delivered, and a stored message whose delivery status is Read
   is never moved back to Delivered. *)
C18_ReadIsFinal ==
    [][\A i \in 1..Len(messages), j \in 1..Len(messages') :
          (/\ messages[i].delivery_status = Some("Read")
           /\ messages'[j].id = messages[i].id)
              => messages'[j].delivery_status /= Some("Delivered")]_vars

(* C12: the id the originator gave the message is the id of the message a
   receiver gets from decode: decoding a frame mints no new id. *)
C12_IdPreserved ==
    (phase = "decoded" /\ decoded.ok) => Unwrap(decoded.msg).id = pm.id

----------------------------------------------------------------------------
(*     message/router.rs: one node receiving, and the host sending         *)

(* The node's own peer id (PeerManager::get_own_peer_id). *)
Own == PeerA

(* What the node receives: a broadcast at full ttl, a private message for
   the node itself, and a private message for another peer. *)
NodeMsgs ==
    {BMLiteral(1, PeerB, "Broadcast", None, None, FALSE, MAX_TTL, "Sent", None),
     BMLiteral(2, PeerB, "Private", None, Some(Own), TRUE, MAX_TTL, "Sent", Some("Pending")),
     BMLiteral(3, PeerB, "Private", None, Some(PeerB), TRUE, MAX_TTL, "Sent", Some("Pending"))}

InitNode ==
    /\ CodecIdle /\ ObjIdle /\ RouterInit /\ NoiseInit /\ LinkInit /\ MeshInit /\ ChanInit /\ ExtInit

NextNode ==
    \/ \E t \in Tasks, m \in NodeMsgs : Begin(t, m)
    \/ \E t \in Tasks : StoreStep(t)
    \/ \E t \in Tasks : CacheStep(t)
    \/ \E t \in Tasks : DispatchStep(t)
    \/ \E t \in Tasks : RelayStep(t)

SpecNode == InitNode /\ [][NextNode]_vars

(* The node has finished with message id: handled, and no call in progress. *)
Processed(id) ==
    /\ AllIdle
    /\ id \in DOMAIN message_cache
    /\ dispatchCount[id] >= 1

(* C13: a broadcast that reaches the middle node of a chain at ttl MAX_TTL
   is relayed onward with ttl MAX_TTL - 1, so that the far node gets it. *)
C13_ChainRelay ==
    \A id \in DOMAIN message_cache :
        (/\ Processed(id)
         /\ message_cache[id].message_type = "Broadcast"
         /\ message_cache[id].ttl = MAX_TTL)
            => \E f \in outbox : f.id = id /\ f.ttl = MAX_TTL - 1

(* C17: for a received private message addressed to the node itself, the
   node emits a DeliveryAck frame addressed to the sender and carrying the
   message id; it emits none for other messages. *)
C17_DeliveryAck ==
    \A id \in DOMAIN message_cache :
        LET m == message_cache[id]
            acks == {f \in outbox : f.message_type = "DeliveryAck" /\ f.acked = id}
        IN  Processed(id) =>
                IF m.message_type = "Private" /\ m.recipient_id = Some(Own)
                THEN \E f \in acks : f.recipient_id = Some(m.sender_id)
                ELSE acks = {}

(* The sender and recipient ids send_message and send_private_message use. *)
PlaceholderId == <<0, 0, 0, 0, 0, 0, 0, 0>>

(* The frames send_message / send_private_message hand to the mesh service
   for message m: none, the message is logged as queued. *)
SendSends(m) == {}

(* send_message(content, channel) and send_private_message(recipient,
   content) up to store_message: the message is made and stored. *)
SendStore(t, kind) ==
    /\ task[t].pc = "idle"
    /\ calls < MaxCalls
    /\ calls' = calls + 1
    /\ LET id == calls + 1
           m == CASE kind = "broadcast" -> NewBroadcast(id, PlaceholderId)
                  [] kind = "channel" -> NewChannel(id, PlaceholderId, "#a")
                  [] kind = "private" -> NewPrivate(id, PlaceholderId, PlaceholderId)
       IN  /\ messages' = StoreMessageOf(messages, m)
           /\ storeLog' = Append(storeLog, id)
           /\ task' = [task EXCEPT ![t] = [pc |-> kind, msg |-> Some(m)]]
    /\ UNCHANGED <<message_cache, dispatchCount, relayCount, relaySeen,
                   removedAny, outbox, lastSend, TaskFrame>>

(* ... the cache insert, the send that is left out, and Ok(id). *)
SendCache(t) ==
    /\ task[t].pc \in {"broadcast", "channel", "private"}
    /\ LET m == Unwrap(task[t].msg)
       IN  /\ message_cache' = CacheInsert(message_cache, m)
           /\ outbox' = outbox \cup SendSends(m)
           /\ lastSend' = [kind |-> task[t].pc, ok |-> TRUE, id |-> m.id]
           /\ originated' = originated \cup {m.id}
    /\ task' = [task EXCEPT ![t] = [pc |-> "idle", msg |-> None]]
    /\ UNCHANGED <<messages, calls, dispatchCount, relayCount, relaySeen,
                   storeLog, removedAny, codecVars, objVars, noiseVars,
                   linkVars, meshVars, chanVars, dirVars, svcVars, queryVars,
                   orderVars, rxReads, chanTask, evicted>>

InitSend ==
    /\ CodecIdle /\ ObjIdle /\ RouterInit /\ NoiseInit /\ LinkInit /\ MeshInit /\ ChanInit /\ ExtInit

NextSend ==
    \/ \E t \in Tasks, kind \in {"broadcast", "channel", "private"} : SendStore(t, kind)
    \/ \E t \in Tasks : SendCache(t)

SpecSend == InitSend /\ [][NextSend]_vars

(* C16: send_private_message issued while no session with the recipient is
   Complete returns an error, and no frame is emitted for the message. *)
C16_NoSession ==
    (/\ lastSend.kind = "private"
     /\ ~\E x \in sessions[Own] : x.peer_id = PlaceholderId /\ x.state = "Complete")
        => (~lastSend.ok /\ \A f \in outbox : f.id /= lastSend.id)

(* C19: a message the host originated is stored with status Sending and
   ends Sent or Failed: it is never in the store with status Draft. *)
C19_NeverDraft ==
    \A i \in 1..Len(messages) : messages[i].status \in {"Sending", "Sent", "Failed"}

----------------------------------------------------------------------------
(*     bluetooth/mesh_service.rs: connections and broadcast                *)

MAX_PEER_CONNECTIONS == 8

Devices == 1..MaxDevices

(* What peripheral.connect() under the timeout and then
   setup_peripheral_connection can come to. *)
ConnectOutcomes == {"ok", "connect_failed", "timeout", "setup_failed"}

(* handle_scan_event(DeviceDiscovered(d)): attempt_connection(d).  Scan
   events are handled one after the other by the scan task. *)
Discovered(d, outcome) ==
    /\ connections' = IF d \notin connections /\ outcome = "ok"
                      THEN connections \cup {d}
                      ELSE connections
    /\ lastAttempt' = [atCap |-> Cardinality(connections) >= MAX_PEER_CONNECTIONS,
                       attempted |-> d \notin connections,
                       added |-> d \notin connections /\ outcome = "ok"]
    /\ UNCHANGED <<lastBroadcast, codecVars, objVars, routerVars, noiseVars,
                   linkVars, chanVars, extVars>>

(* handle_scan_event(DeviceDisconnected(d)): handle_disconnection(d) *)
Disconnected(d) ==
    /\ connections' = connections \ {d}
    /\ UNCHANGED <<lastAttempt, lastBroadcast, codecVars, objVars, routerVars,
                   noiseVars, linkVars, chanVars, extVars>>

(* broadcast_message(&message): one write per connection; `encodes` tells
   whether BitchatProtocol::encode(message) succeeds, a failure returns
   from the loop at its first turn. *)
BroadcastMessage(encodes) ==
    /\ lastBroadcast' = [called |-> TRUE, encoded |-> encodes,
                         eligible |-> Cardinality(connections),
                         sends |-> IF encodes THEN Cardinality(connections) ELSE 0]
    /\ UNCHANGED <<connections, lastAttempt, codecVars, objVars, routerVars,
                   noiseVars, linkVars, chanVars, extVars>>

InitMesh ==
    /\ CodecIdle /\ ObjIdle /\ RouterInit /\ NoiseInit /\ LinkInit /\ MeshInit /\ ChanInit /\ ExtInit

NextMesh ==
    \/ \E d \in Devices, outcome \in ConnectOutcomes : Discovered(d, outcome)
    \/ \E d \in Devices : Disconnected(d)
    \/ \E encodes \in BOOLEAN : BroadcastMessage(encodes)

SpecMesh == InitMesh /\ [][NextMesh]_vars

(* C14: a message sent on to the neighbors goes to min(N, 3) of them, N the
   number of eligible neighbors. *)
C14_Fanout ==
    (lastBroadcast.called /\ lastBroadcast.encoded) =>
        lastBroadcast.sends = Min(lastBroadcast.eligible, 3)

(* C15: the connection map never holds more than 8 connections; a
   Discovered event arriving while 8 are held starts no attempt and adds no
   connection. *)
C15_NeighborCap ==
    /\ Cardinality(connections) <= MAX_PEER_CONNECTIONS
    /\ lastAttempt.atCap =>
           (~lastAttempt.attempted /\ ~lastAttempt.added)

----------------------------------------------------------------------------
(*                     crypto/channel_crypto.rs                            *)

SALT_SIZE == 32

(* Passwords as their bytes (password.as_bytes()): "pw" and "px". *)
Passwords == {<<112, 119>>, <<112, 120>>}

(* from_password's zero salt, and a salt shared by another member. *)
ZeroSalt == [i \in 1..SALT_SIZE |-> 0]
Salts == {ZeroSalt, [i \in 1..SALT_SIZE |-> IF i = 1 THEN 1 ELSE 0]}

(* Plaintexts of 0, 1 and 33 bytes: the last one wraps around the key. *)
Plaintexts == {PayloadOf(n) : n \in {0, 1, 33}}

RECURSIVE XorByte(_, _)
(* byte ^ byte *)
XorByte(a, b) ==
    IF a = 0 /\ b = 0 THEN 0
    ELSE (((a % 2) + (b % 2)) % 2) + 2 * XorByte(a \div 2, b \div 2)

RECURSIVE Digest(_, _)
(* A 32-byte digest of the bytes fed to the hasher, in the order fed.  It
   stands for Sha256, of which only that it is a function is used. *)
Digest(data, h) ==
    IF data = <<>> THEN h
    ELSE Digest(Tail(data), (h * 31 + Head(data) + 1) % 65521)

(* ChannelKey::derive_key: the hash of password bytes, then salt. *)
DeriveKey(password, salt) ==
    LET h == Digest(password \o salt, 7)
    IN  [i \in 1..32 |-> (h * i + (h \div 256) + i) % 256]

(* ChannelKey::from_password *)
FromPassword(channel, password) ==
    [channel_name |-> channel, key |-> DeriveKey(password, ZeroSalt),
     salt |-> ZeroSalt]

(* ChannelKey::from_password_and_salt *)
FromPasswordAndSalt(channel, password, salt) ==
    [channel_name |-> channel, key |-> DeriveKey(password, salt), salt |-> salt]

(* The loop of encrypt_channel_message: byte ^ key[i % key.len()], i from 0. *)
EncryptBytes(data, key) ==
    [i \in 1..Len(data) |-> XorByte(data[i], key[((i - 1) % Len(key)) + 1])]

DecryptBytesShifted(data, key) ==
    [i \in 1..Len(data) |-> XorByte(data[i], key[(i % Len(key)) + 1])]

(* The loop of decrypt_channel_message and try_decrypt_with_password. *)
DecryptBytes(data, key) ==
    [i \in 1..Len(data) |-> XorByte(data[i], key[((i - 1) % Len(key)) + 1])]

ChanFrame == <<codecVars, objVars, routerVars, noiseVars, linkVars, meshVars, extVars>>

(* set_channel_password(channel, password) *)
SetChannelPassword(ch, pw) ==
    /\ channel_keys' = [channel_keys EXCEPT ![ch] = Some(FromPassword(ch, pw))]
    /\ password_cache' = [password_cache EXCEPT ![ch] = Some(pw)]
    /\ UNCHANGED <<chanOp, ChanFrame>>

(* remove_channel_password(channel) *)
RemoveChannelPassword(ch) ==
    /\ channel_keys' = [channel_keys EXCEPT ![ch] = None]
    /\ password_cache' = [password_cache EXCEPT ![ch] = None]
    /\ UNCHANGED <<chanOp, ChanFrame>>

(* encrypt_channel_message(channel, plaintext): an error without a key. *)
EncryptChannelMessage(ch, m) ==
    /\ chanOp' =
           IF IsSome(channel_keys[ch])
           THEN [enc |-> Some([channel |-> ch, plaintext |-> m,
                               out |-> EncryptBytes(m, Unwrap(channel_keys[ch]).key),
                               key |-> Unwrap(channel_keys[ch]),
                               password |-> password_cache[ch]]),
                 dec |-> None]
           ELSE [enc |-> None, dec |-> None]
    /\ UNCHANGED <<channel_keys, password_cache, ChanFrame>>

(* decrypt_channel_message(channel, ciphertext) on the ciphertext the last
   encrypt_channel_message returned for the channel. *)
DecryptChannelMessage ==
    /\ IsSome(chanOp.enc)
    /\ LET e == Unwrap(chanOp.enc)
           k == channel_keys[e.channel]
       IN  chanOp' = [chanOp EXCEPT !.dec =
               IF IsSome(k)
               THEN Some([via |-> "key", ok |-> TRUE,
                          out |-> DecryptBytes(e.out, Unwrap(k).key),
                          key |-> k, password |-> None])
               ELSE Some([via |-> "key", ok |-> FALSE, out |-> <<>>,
                          key |-> None, password |-> None])]
    /\ UNCHANGED <<channel_keys, password_cache, ChanFrame>>

(* try_decrypt_with_password(channel, password, ciphertext, salt) on that
   ciphertext: the temporary key decrypts and is then cached. *)
TryDecryptWithPassword(pw, salt) ==
    /\ IsSome(chanOp.enc)
    /\ LET e == Unwrap(chanOp.enc)
           temp_key == FromPasswordAndSalt(e.channel, pw, salt)
       IN  /\ chanOp' = [chanOp EXCEPT !.dec =
                   Some([via |-> "password", ok |-> TRUE,
                         out |-> DecryptBytes(e.out, temp_key.key),
                         key |-> Some(temp_key), password |-> Some(pw)])]
           /\ channel_keys' = [channel_keys EXCEPT ![e.channel] = Some(temp_key)]
           /\ password_cache' = [password_cache EXCEPT ![e.channel] = Some(pw)]
    /\ UNCHANGED ChanFrame

InitChan ==
    /\ CodecIdle /\ ObjIdle /\ RouterInit /\ NoiseInit /\ LinkInit /\ MeshInit /\ ChanInit /\ ExtInit

NextChan ==
    \/ \E ch \in Channels, pw \in Passwords : SetChannelPassword(ch, pw)
    \/ \E ch \in Channels : RemoveChannelPassword(ch)
    \/ \E ch \in Channels, m \in Plaintexts : EncryptChannelMessage(ch, m)
    \/ DecryptChannelMessage
    \/ \E pw \in Passwords, salt \in Salts : TryDecryptWithPassword(pw, salt)

SpecChan == InitChan /\ [][NextChan]_vars

(* C20: decrypt_channel_message of what encrypt_channel_message returned,
   on a channel that still has the key it encrypted with, returns the
   plaintext; try_decrypt_with_password with the password and salt that made
   that key returns the plaintext too. *)
C20_ChannelRoundTrip ==
    (IsSome(chanOp.enc) /\ IsSome(chanOp.dec)) =>
        LET e == Unwrap(chanOp.enc)
            r == Unwrap(chanOp.dec)
        IN  /\ (r.via = "key" /\ r.key = Some(e.key)) =>
                   (r.ok /\ r.out = e.plaintext)
            /\ (r.via = "password" /\ r.password = e.password
                                   /\ Unwrap(r.key).salt = e.key.salt) =>
                   (r.ok /\ r.out = e.plaintext)

(* A 33-byte plaintext, longer than the key, went through encrypt and
   decrypt on a channel with a key and came back; the ciphertext differs. *)
C20_Witness ==
    /\ IsSome(chanOp.enc) /\ IsSome(chanOp.dec)
    /\ Len(Unwrap(chanOp.enc).plaintext) = 33
    /\ Unwrap(chanOp.enc).out /= Unwrap(chanOp.enc).plaintext
    /\ Unwrap(chanOp.dec).via = "key"
    /\ Unwrap(chanOp.dec).out = Unwrap(chanOp.enc).plaintext

(* C21: decrypting a channel ciphertext with a key derived from a password
   that differs from the encrypting password is an error; it never returns a
   successful result. *)
C21_WrongKeyFails ==
    (IsSome(chanOp.enc) /\ IsSome(chanOp.dec)) =>
        LET e == Unwrap(chanOp.enc)
            r == Unwrap(chanOp.dec)
        IN  (r.via = "password" /\ r.password /= e.password
                                /\ r.key /= Some(e.key)) => ~r.ok

----------------------------------------------------------------------------
(*                     bluetooth/peer_manager.rs                           *)

PEER_TIMEOUT == 90

ConnectionStates ==
    {"Discovering", "Connecting", "Connected", "Authenticated", "Disconnected",
     "Failed"}

(* The clock advances in steps of half the peer timeout. *)
ClockStep == PEER_TIMEOUT \div 2

(* PeerInfo::new at clock value t, reduced to the fields the manager reads. *)
PeerInfoNew(t) ==
    [connection_state |-> "Discovering", last_seen |-> t,
     is_favorite |-> FALSE, is_blocked |-> FALSE]

(* PeerInfo::is_online at clock value t *)
IsOnline(info, t) ==
    \/ info.connection_state \in {"Connected", "Authenticated"}
    \/ t - info.last_seen < PEER_TIMEOUT

(* The write through the guard of peers.get_mut(p), if there is an entry. *)
PeerUpdate(P, p, f(_)) ==
    IF p \in DOMAIN P /\ IsSome(P[p])
    THEN [P EXCEPT ![p] = Some(f(Unwrap(P[p])))]
    ELSE P

(* add_or_update_peer(peer_id = p, _) at clock value t *)
AddOrUpdatePeerOf(P, blocked, p, t) ==
    IF p = Own THEN P
    ELSE IF p \in blocked THEN P
    ELSE IF IsSome(P[p])
    THEN [P EXCEPT ![p] = Some([Unwrap(P[p]) EXCEPT !.last_seen = t])]
    ELSE [P EXCEPT ![p] = Some(PeerInfoNew(t))]

(* update_peer_connection_state(p, state) at clock value t *)
UpdatePeerConnectionStateOf(P, p, state, t) ==
    LET Set(info) == [info EXCEPT !.connection_state = state, !.last_seen = t]
    IN  PeerUpdate(P, p, Set)

(* handle_announce_message for an Announce of sender p whose payload holds
   a nickname: add_or_update_peer, then update_peer_connection_state. *)
HandleAnnounceOf(P, blocked, p, t) ==
    UpdatePeerConnectionStateOf(AddOrUpdatePeerOf(P, blocked, p, t), p,
                                "Connected", t)

(* get_connected_peers, as the set of their ids *)
GetConnectedPeers(P) ==
    {p \in DOMAIN P : IsSome(P[p]) /\
        Unwrap(P[p]).connection_state \in {"Connected", "Authenticated"}}

(* cleanup_offline_peers at clock value t: the keys it removes. *)
CleanupToRemove(P, t) ==
    {p \in DOMAIN P : IsSome(P[p]) /\
        LET info == Unwrap(P[p])
        IN  /\ ~info.is_favorite
            /\ t - info.last_seen > PEER_TIMEOUT
            /\ ~IsOnline(info, t)}

DirFrame == <<codecVars, objVars, routerVars, noiseVars, linkVars, meshVars, chanVars, svcVars, queryVars, tailVars>>

(* handle_announce_message(&message), message.sender_id = p *)
HandleAnnounceMessage(p) ==
    /\ peers' = HandleAnnounceOf(peers, blocked_peers, p, clock)
    /\ UNCHANGED <<favorites, blocked_peers, clock, lastSweep, DirFrame>>

(* add_favorite(p) *)
AddFavorite(p) ==
    /\ favorites' = favorites \cup {p}
    /\ peers' = LET Set(info) == [info EXCEPT !.is_favorite = TRUE]
                IN  PeerUpdate(peers, p, Set)
    /\ UNCHANGED <<blocked_peers, clock, lastSweep, DirFrame>>

(* remove_favorite(p) *)
RemoveFavorite(p) ==
    /\ favorites' = favorites \ {p}
    /\ peers' = LET Set(info) == [info EXCEPT !.is_favorite = FALSE]
                IN  PeerUpdate(peers, p, Set)
    /\ UNCHANGED <<blocked_peers, clock, lastSweep, DirFrame>>

(* block_peer(p) *)
BlockPeer(p) ==
    /\ blocked_peers' = blocked_peers \cup {p}
    /\ peers' = LET Set(info) == [info EXCEPT !.is_blocked = TRUE,
                                              !.connection_state = "Disconnected"]
                IN  PeerUpdate(peers, p, Set)
    /\ UNCHANGED <<favorites, clock, lastSweep, DirFrame>>

(* unblock_peer(p) *)
UnblockPeer(p) ==
    /\ blocked_peers' = blocked_peers \ {p}
    /\ peers' = LET Set(info) == [info EXCEPT !.is_blocked = FALSE]
                IN  PeerUpdate(peers, p, Set)
    /\ UNCHANGED <<favorites, clock, lastSweep, DirFrame>>

(* cleanup_offline_peers(), the sweep of the cleanup task.  The record
   keeps the directory before and after, and the peers that are favorites
   or were heard within PEER_TIMEOUT. *)
CleanupOfflinePeers ==
    /\ peers' = [p \in DOMAIN peers |->
                    IF p \in CleanupToRemove(peers, clock) THEN None ELSE peers[p]]
    /\ lastSweep' =
           [called |-> TRUE,
            was |-> {p \in DOMAIN peers : IsSome(peers[p])},
            kept |-> {p \in DOMAIN peers : IsSome(peers[p])}
                         \ CleanupToRemove(peers, clock),
            due |-> {p \in DOMAIN peers : IsSome(peers[p]) /\
                        (\/ p \in favorites
                         \/ clock - Unwrap(peers[p]).last_seen <= PEER_TIMEOUT)}]
    /\ UNCHANGED <<favorites, blocked_peers, clock, DirFrame>>

ClockTick ==
    /\ clock + ClockStep <= MaxClock
    /\ clock' = clock + ClockStep
    /\ UNCHANGED <<peers, favorites, blocked_peers, lastSweep, DirFrame>>

InitDirectory ==
    /\ CodecIdle /\ ObjIdle /\ RouterInit /\ NoiseInit /\ LinkInit /\ MeshInit /\ ChanInit /\ ExtInit

NextDirectory ==
    \/ \E p \in RemotePeers \cup {Own} : HandleAnnounceMessage(p)
    \/ \E p \in RemotePeers : AddFavorite(p)
    \/ \E p \in RemotePeers : RemoveFavorite(p)
    \/ \E p \in RemotePeers : BlockPeer(p)
    \/ \E p \in RemotePeers : UnblockPeer(p)
    \/ CleanupOfflinePeers
    \/ ClockTick

SpecDirectory == InitDirectory /\ [][NextDirectory]_vars

(* C23: after a sweep a peer that was in the directory is still in it if
   and only if it is marked favorite or was heard within PEER_TIMEOUT,
   whatever its connection state and whether add_favorite came before or
   after its discovery. *)
C23_SweepKeeps == lastSweep.called => lastSweep.kept = lastSweep.due

----------------------------------------------------------------------------
(*     bluetooth/mesh_service.rs: start, stop and the spawned tasks        *)

(* The notifications a link delivers: bytes that do not decode, an Announce
   with and without a nickname in its payload, a Message, a NoiseInit. *)
NotifFrames ==
    {[decodes |-> FALSE, message_type |-> "Message", sender_id |-> s, nickname |-> FALSE] :
        s \in {PeerB}}
    \cup {[decodes |-> TRUE, message_type |-> "Announce", sender_id |-> s, nickname |-> n] :
        s \in {PeerB, Own}, n \in BOOLEAN}
    \cup {[decodes |-> TRUE, message_type |-> ty, sender_id |-> s, nickname |-> FALSE] :
        ty \in {"Message", "NoiseInit"}, s \in {PeerB}}

SvcFrame == <<codecVars, objVars, routerVars, noiseVars, linkVars, chanVars, queryVars, tailVars>>

(* start(): returns at once when running; else is_running is set,
   start_scanning sets scanning and spawns the scan event task,
   start_message_processing takes the receiver out of message_rx and fails
   when it is gone, and only then start_peer_cleanup spawns its task. *)
Start ==
    /\ ~is_running
    /\ is_running' = TRUE
    /\ scanning' = TRUE
    /\ eventTask' = TRUE
    /\ IF message_rx
       THEN /\ message_rx' = FALSE
            /\ cleanupTask' = TRUE
            /\ lastStart' = [called |-> TRUE, ok |-> TRUE]
       ELSE /\ lastStart' = [called |-> TRUE, ok |-> FALSE]
            /\ UNCHANGED <<message_rx, cleanupTask>>
    /\ UNCHANGED <<notifTasks, pendingEvents, lastNotif, announcedOn, downPeers,
                   meshVars, dirVars, SvcFrame>>

(* stop(): the three flags are cleared, disconnect_all_peers empties the
   connection map, the adapter stops scanning.  No task is aborted and the
   events already emitted stay in the stream. *)
Stop ==
    /\ is_running
    /\ is_running' = FALSE
    /\ scanning' = FALSE
    /\ connections' = {}
    /\ announcedOn' = [d \in SvcDevices |-> {}]
    /\ UNCHANGED <<eventTask, notifTasks, pendingEvents, lastNotif, downPeers,
                   lastAttempt, lastBroadcast, dirVars, startVars, SvcFrame>>

(* start_peer_cleanup's task: its loop `while *is_running` ends at the first
   test that finds the flag cleared. *)
CleanupExit ==
    /\ cleanupTask
    /\ ~is_running
    /\ cleanupTask' = FALSE
    /\ UNCHANGED <<is_running, scanning, eventTask, notifTasks, pendingEvents,
                   lastNotif, announcedOn, downPeers, message_rx, lastStart,
                   meshVars, dirVars, SvcFrame>>

(* The adapter emits CentralEvent::DeviceDiscovered(d) while it scans. *)
ScanEvent(d) ==
    /\ scanning
    /\ d \notin pendingEvents
    /\ pendingEvents' = pendingEvents \cup {d}
    /\ UNCHANGED <<is_running, scanning, eventTask, notifTasks, lastNotif,
                   announcedOn, downPeers, meshVars, dirVars, startVars, SvcFrame>>

(* The scan event task takes DeviceDiscovered(d): attempt_connection(d),
   and on success setup_peripheral_connection inserts the connection and
   spawns the notification task of the device. *)
HandleDiscovered(d, outcome) ==
    /\ eventTask
    /\ d \in pendingEvents
    /\ pendingEvents' = pendingEvents \ {d}
    /\ LET added == d \notin connections /\ outcome = "ok" IN
       /\ connections' = IF added THEN connections \cup {d} ELSE connections
       /\ lastAttempt' = [atCap |-> Cardinality(connections) >= MAX_PEER_CONNECTIONS,
                          attempted |-> d \notin connections,
                          added |-> added]
       /\ notifTasks' = IF added THEN notifTasks \cup {d} ELSE notifTasks
       /\ announcedOn' = IF added THEN [announcedOn EXCEPT ![d] = {}]
                         ELSE announcedOn
    /\ UNCHANGED <<is_running, scanning, eventTask, lastNotif, downPeers,
                   lastBroadcast, dirVars, startVars, SvcFrame>>

(* The scan event task takes DeviceDisconnected(d): handle_disconnection(d)
   removes the connection and touches no peer. *)
HandleDisconnected(d) ==
    /\ eventTask
    /\ d \in connections
    /\ connections' = connections \ {d}
    /\ downPeers' = downPeers \cup
           {p \in announcedOn[d] :
               \A d2 \in connections \ {d} : p \notin announcedOn[d2]}
    /\ announcedOn' = [announcedOn EXCEPT ![d] = {}]
    /\ UNCHANGED <<is_running, scanning, eventTask, notifTasks, pendingEvents,
                   lastNotif, lastAttempt, lastBroadcast, dirVars, startVars, SvcFrame>>

(* The notification stream of a device that is no longer connected ends,
   and its task with it. *)
StreamEnd(d) ==
    /\ d \in notifTasks
    /\ d \notin connections
    /\ notifTasks' = notifTasks \ {d}
    /\ UNCHANGED <<is_running, scanning, eventTask, pendingEvents, lastNotif,
                   announcedOn, downPeers, meshVars, dirVars, startVars, SvcFrame>>

(* handle_notification(d, data) in the notification task of d: decode,
   the handler of the type, then the send on message_tx. *)
HandleNotification(d, f) ==
    /\ d \in notifTasks
    /\ LET announce == f.decodes /\ f.message_type = "Announce" /\ f.nickname
           after == IF announce
                    THEN HandleAnnounceOf(peers, blocked_peers, f.sender_id, clock)
                    ELSE peers
       IN  /\ peers' = after
           /\ lastNotif' = [called |-> TRUE, sender |-> f.sender_id,
                            blocked |-> f.sender_id \in blocked_peers,
                            forwarded |-> f.decodes,
                            dirChanged |-> after /= peers,
                            running |-> is_running]
           /\ announcedOn' =
                  IF announce /\ d \in connections /\ f.sender_id \in RemotePeers
                  THEN [announcedOn EXCEPT ![d] = @ \cup {f.sender_id}]
                  ELSE announcedOn
           /\ downPeers' =
                  IF announce /\ d \in connections THEN downPeers \ {f.sender_id}
                  ELSE downPeers
    /\ UNCHANGED <<favorites, blocked_peers, clock, lastSweep, is_running,
                   scanning, eventTask, notifTasks, pendingEvents, meshVars,
                   startVars, SvcFrame>>

InitService ==
    /\ CodecIdle /\ ObjIdle /\ RouterInit /\ NoiseInit /\ LinkInit /\ MeshInit /\ ChanInit /\ ExtInit

NextService ==
    \/ Start
    \/ Stop
    \/ CleanupExit
    \/ \E d \in SvcDevices : ScanEvent(d)
    \/ \E d \in SvcDevices, outcome \in ConnectOutcomes : HandleDiscovered(d, outcome)
    \/ \E d \in SvcDevices : HandleDisconnected(d)
    \/ \E d \in SvcDevices : StreamEnd(d)
    \/ \E d \in SvcDevices, f \in NotifFrames : HandleNotification(d, f)
    \/ BlockPeer(PeerB)
    \/ UnblockPeer(PeerB)

SpecService == InitService /\ [][NextService]_vars

(* C22: a frame whose sender is blocked when it arrives is not forwarded to
   message processing and does not change the peer directory. *)
C22_BlockedDropped ==
    (lastNotif.called /\ lastNotif.blocked) =>
        (~lastNotif.forwarded /\ ~lastNotif.dirChanged)

(* C24: a peer whose link went down with DeviceDisconnected, and who has not
   announced on a link since, is not in Connected or Authenticated state. *)
C24_LinkDown ==
    /\ \A d \in SvcDevices : d \notin connections => announcedOn[d] = {}
    /\ \A p \in downPeers : p \notin GetConnectedPeers(peers)

(* C29: while the service is stopped the connection map is empty and no
   notification is processed. *)
C29_StopQuiesces ==
    /\ ~is_running => connections = {}
    /\ lastNotif.called => lastNotif.running

----------------------------------------------------------------------------
(*     crypto/noise_protocol.rs: expiry and fingerprints                   *)

(* C25: cleanup_expired_sessions never removes a session that is Complete,
   whatever its age. *)
C25_EstablishedKept ==
    [][\A p \in PeerIds :
          (/\ p \in expiredList[Local]
           /\ p \notin expiredList'[Local]
           /\ \E x \in sessions[Local] : x.peer_id = p /\ x.state = "Complete")
              => \E x \in sessions'[Local] : x.peer_id = p /\ x.state = "Complete"]_vars

(* NoiseSession::get_remote_fingerprint: the hex of the SHA-256 of the peer
   id, a function of the peer id alone. *)
GetRemoteFingerprint(s) == <<"sha256", s.peer_id>>

(* The fingerprints a caller can expect: the hash of either peer id, and
   the hash of a static key of the peer. *)
ExpectedFingerprints ==
    {<<"sha256", PeerA>>, <<"sha256", PeerB>>, <<"sha256", [i \in 1..32 |-> 7]>>}

(* verify_peer_fingerprint(peer_id, expected_fingerprint), peer_id the hex
   of the 8 bytes p *)
VerifyPeerFingerprint(p, expected) ==
    /\ lastVerify' =
           [called |-> TRUE,
            result |-> /\ HasSession(sessions[Local], p)
                       /\ GetRemoteFingerprint(SessionOf(sessions[Local], p)) = expected,
            established |-> /\ HasSession(sessions[Local], p)
                            /\ SessionOf(sessions[Local], p).state = "Complete"]
    /\ UNCHANGED <<lastHistory, dirVars, svcVars, tailVars, codecVars, objVars, routerVars,
                   noiseVars, linkVars, meshVars, chanVars>>

InitVerify ==
    /\ CodecIdle /\ ObjIdle /\ RouterInit /\ NoiseInit /\ LinkInit /\ MeshInit /\ ChanInit /\ ExtInit

NextVerify ==
    \/ \E p \in PeerIds : StartHandshake(p)
    \/ \E p \in PeerIds, ty \in HandshakeTypeBytes : ProcessHandshakeMessage(p, ty)
    \/ \E p \in PeerIds : ProcessHandshakeInsert(p)
    \/ \E p \in PeerIds, expected \in ExpectedFingerprints : VerifyPeerFingerprint(p, expected)

SpecVerify == InitVerify /\ [][NextVerify]_vars

(* C26: verify_peer_fingerprint returns true only for a peer with which a
   session has reached Complete. *)
C26_VerifyNeedsSession ==
    (lastVerify.called /\ lastVerify.result) => lastVerify.established

----------------------------------------------------------------------------
(*     message/storage.rs: get_messages; router.rs: get_message_history    *)

(* The scopes history is asked for: all messages, the public scope, a
   named channel. *)
HistoryScopes == {None, Some("public"), Some("#a")}

(* `limit: Option<u32>` of get_message_history *)
HistoryLimits == {None, Some(0), Some(1), Some(2)}

(* The filter closure of get_messages *)
ChannelFilter(msg, channel) ==
    IF IsSome(channel)
    THEN IF IsSome(msg.channel)
         THEN Unwrap(msg.channel) = Unwrap(channel)
         ELSE Unwrap(channel) \in {"public", "broadcast"}
    ELSE TRUE

(* .rev() *)
Rev(l) == [i \in 1..Len(l) |-> l[Len(l) + 1 - i]]

(* .take(n) *)
Take(l, n) == SubSeq(l, 1, Min(n, Len(l)))

(* MessageStorage::get_messages(channel, limit) on the deque q *)
GetMessages(q, channel, limit) ==
    LET Keep(m) == ChannelFilter(m, channel)
    IN  Take(Rev(SelectSeq(q, Keep)), limit)

(* The messages the callers of the store hold: a broadcast, a private
   message, a message of channel #a and a system message under each id. *)
HistoryMsgs ==
    UNION {{NewBroadcast(i, PeerA), NewPrivate(i, PeerA, PeerB),
            NewChannel(i, PeerA, "#a"), NewSystem(i)} : i \in OpsIds}

(* get_message_history(channel, limit): get_messages with limit or 50. *)
GetMessageHistory(channel, limit) ==
    /\ lastHistory' =
           [called |-> TRUE, scope |-> channel,
            limit |-> IF IsSome(limit) THEN Unwrap(limit) ELSE 50,
            result |-> GetMessages(messages, channel,
                           IF IsSome(limit) THEN Unwrap(limit) ELSE 50),
            of |-> messages]
    /\ UNCHANGED <<lastVerify, dirVars, svcVars, tailVars, codecVars, objVars, routerVars,
                   noiseVars, linkVars, meshVars, chanVars>>

InitHistory ==
    /\ CodecIdle /\ ObjIdle /\ RouterInit /\ NoiseInit /\ LinkInit /\ MeshInit /\ ChanInit /\ ExtInit

NextHistory ==
    \/ \E m \in HistoryMsgs : OpsStore(m)
    \/ \E ch \in HistoryScopes, limit \in HistoryLimits : GetMessageHistory(ch, limit)

SpecHistory == InitHistory /\ [][NextHistory]_vars

(* The messages of a scope: every message for no channel; for a channel its
   channel messages, and the broadcasts for the public scope. *)
InScope(m, scope) ==
    \/ scope = None
    \/ m.message_type = "Channel" /\ m.channel = scope
    \/ m.message_type = "Broadcast" /\ scope \in {Some("public"), Some("broadcast")}

(* C27: history(scope, limit) is the min(limit, matching) most recently
   stored messages of the scope, newest first; private and system messages
   are in no channel's history. *)
C27_History ==
    lastHistory.called =>
        LET Match(m) == InScope(m, lastHistory.scope)
            matching == SelectSeq(lastHistory.of, Match)
            n == Min(lastHistory.limit, Len(matching))
        IN  lastHistory.result = Rev(LastN(matching, n))

----------------------------------------------------------------------------
(*     bluetooth/protocol.rs: decode of a frame followed by more bytes     *)

(* Non-empty byte strings that follow a frame. *)
TrailingBytes == {<<0>>, <<1, 2>>}

(* BitchatProtocol::decode on the bytes encode returned followed by x. *)
DecodeTrailingAct ==
    /\ phase = "encoded"
    /\ wire.ok
    /\ \E u \in Uuids \ {pm.id}, x \in TrailingBytes :
           decoded' = Decode(wire.bytes \o x, u)
    /\ phase' = "decodedTrailing"
    /\ UNCHANGED <<pm, viaBuilders, wire, pmTtlOp, objVars, routerVars,
                   noiseVars, linkVars, meshVars, chanVars, extVars>>

NextTrailing ==
    \/ NextCodec
    \/ DecodeTrailingAct

SpecTrailing == InitCodec /\ [][NextTrailing]_vars

(* C28: decode of an encoded frame followed by a non-empty byte string is
   an error. *)
C28_StrictLength == phase = "decodedTrailing" => ~decoded.ok

----------------------------------------------------------------------------
(*     message/router.rs: the relay decision                               *)

(* C30: process_incoming_message calls consider_relay for a message if and
   only if its ttl > 0 and its type is relayable: every type but System
   (the Noise types never reach the router), delivery receipts included. *)
C30_RelayDecision ==
    [][\A t \in Tasks :
          (task[t].pc = "relay" /\ task'[t].pc = "idle") =>
              LET m == Unwrap(task[t].msg)
              IN  (relayCount'[m.id] = relayCount[m.id] + 1)
                      <=> (m.ttl > 0 /\ m.message_type /= "System")]_vars


(* ---------------------------------------------------------------------- *)
(* Restarting the service                                                  *)
(* ---------------------------------------------------------------------- *)

(* C40: the service can be restarted: every start() that finds the service
   stopped succeeds and leaves it running with scanning, message processing
   and peer cleanup active. *)
C40_Restart ==
    lastStart.called =>
        /\ lastStart.ok
        /\ (is_running => cleanupTask)


(* ---------------------------------------------------------------------- *)
(* Blocked peers in the directory                                          *)
(* ---------------------------------------------------------------------- *)

(* C39: in every reachable state of the peer directory a blocked peer is not
   in Connected or Authenticated state. *)
C39_BlockedNotConnected ==
    \A p \in blocked_peers : p \notin GetConnectedPeers(peers)


(* ---------------------------------------------------------------------- *)
(* try_decrypt_with_password and the keystore                              *)
(* ---------------------------------------------------------------------- *)

(* C37: an attempt of try_decrypt_with_password with a password that is not
   the one the ciphertext was encrypted under leaves channel_keys and
   password_cache as they were. *)
C37_WrongPasswordKeepsStore ==
    [][(/\ IsSome(chanOp'.dec)
        /\ chanOp'.dec /= chanOp.dec
        /\ Unwrap(chanOp'.dec).via = "password"
        /\ Unwrap(chanOp'.dec).password /= Some(Unwrap(chanOp.enc).password))
       => (channel_keys' = channel_keys /\ password_cache' = password_cache)]_vars


(* ---------------------------------------------------------------------- *)
(* Payloads before the handshake has completed                             *)
(* ---------------------------------------------------------------------- *)

(* The session of peer p on the local engine exists and is Complete. *)
HasCompleteSession(p) ==
    /\ HasSession(sessions[Local], p)
    /\ SessionOf(sessions[Local], p).state = "Complete"

(* C36: encrypt_message and decrypt_message for a peer return Ok only if the
   peer has a session in state Complete; otherwise they return an error and
   leave the session map unchanged. *)
C36_NoPayloadBeforeComplete ==
    [][(lastOp' /= lastOp /\ lastOp'.op \in {"encrypt", "decrypt"})
       => /\ lastOp'.ok <=> HasCompleteSession(lastOp'.peer)
          /\ ~HasCompleteSession(lastOp'.peer) => sessions' = sessions]_vars

(* decrypt_message has just been refused for a peer whose session exists and
   is still in its handshake. *)
C36_Witness ==
    /\ lastOp.op = "decrypt"
    /\ ~lastOp.ok
    /\ HasSession(sessions[Local], lastOp.peer)
    /\ SessionOf(sessions[Local], lastOp.peer).state = "InitiatorSendingInit"


(* ---------------------------------------------------------------------- *)
(* The handshake paths                                                     *)
(* ---------------------------------------------------------------------- *)

(* C33: process_handshake_message moves a session only along the two
   handshake paths: a session that is Complete stays Complete, and a session
   becomes Complete only from the last state of its own path
   (ResponderSendingResponse on the responder side, InitiatorSendingFinish on
   the initiator side). *)
C33_HandshakePaths ==
    [][(lastOp'.op = "process" /\ lastOp' /= lastOp)
       => \A p \in PeerIds :
            (HasSession(sessions[Local], p) /\ HasSession(sessions'[Local], p))
            => LET old == SessionOf(sessions[Local], p).state
                   new == SessionOf(sessions'[Local], p).state
               IN  /\ old = "Complete" => new = "Complete"
                   /\ new = "Complete" => old \in {"Complete",
                          "ResponderSendingResponse", "InitiatorSendingFinish"}]_vars


(* ---------------------------------------------------------------------- *)
(* decode on the bytes a link delivers                                     *)
(* ---------------------------------------------------------------------- *)

(* A received byte sequence of length len: the header fields are given, all
   other bytes are filler. *)
RxBytes(len, ver, ttl, fl, plen) ==
    [i \in 1..len |->
        CASE i = 1 -> ver
          [] i = 2 -> 4
          [] i = 3 -> ttl
          [] i = 12 -> fl
          [] i = 13 -> plen \div 256
          [] i = 14 -> plen % 256
          [] OTHER -> (i * 37 + 11) % 256]

(* Lengths around every length check of decode, versions around the current
   one, ttl values on both sides of MAX_TTL, flag bytes with and without
   recipient and signature, and declared payload lengths from 0 to u16::MAX. *)
RxLens == {0, 1, 11, 12, 13, 14, 21, 22, 23, 29, 30, 31, 86, 94, 95, 512, 513}
RxVersions == {0, 1, 2}
RxTtls == {0, 7, 8, 255}
RxFlagBytes == {0, 1, 2, 3, 241}
RxPayloadLens == {0, 1, 8, 9, 490, 491, 65535}

RxFrames ==
    {RxBytes(len, ver, ttl, fl, plen) :
        len \in RxLens, ver \in RxVersions, ttl \in RxTtls,
        fl \in RxFlagBytes, plen \in RxPayloadLens}

(* Variant of HeaderTooShort that lets an 11-byte input through. *)
HeaderTooShortAt11(data) == Len(data) < 11

(* decode: the test before the unchecked reads of the header. *)
HeaderTooShort(data) == Len(data) < 13

(* The (1-based) indices of data that decode reads, following its checks:
   the header bytes are indexed without a further check, every later field
   after a comparison with data.len(). *)
DecodeReads(data) ==
    IF HeaderTooShort(data) THEN {}
    ELSE IF data[1] /= PROTOCOL_VERSION THEN {1}
    ELSE
    LET flags == FlagsFromByte(data[12]) IN
    IF 12 + 2 > Len(data) THEN 1..12
    ELSE
    LET payload_len == U16FromBeBytes(SubSeq(data, 13, 14)) IN
    IF 14 + 8 > Len(data) THEN 1..14
    ELSE
    IF flags.has_recipient /\ 22 + 8 > Len(data) THEN 1..22
    ELSE
    LET off2 == IF flags.has_recipient THEN 30 ELSE 22 IN
    IF off2 + payload_len > Len(data) THEN 1..off2
    ELSE
    LET off3 == off2 + payload_len IN
    IF flags.has_signature /\ off3 + SIGNATURE_LEN > Len(data) THEN 1..off3
    ELSE IF flags.has_signature THEN 1..(off3 + SIGNATURE_LEN) ELSE 1..off3

(* The first notification of a link delivers data and decode runs on it; u
   is the uuid decode draws for the result. *)
ReceiveAct(data, u) ==
    /\ phase = "build"
    /\ wire' = [ok |-> TRUE, bytes |-> data, err |-> "received"]
    /\ decoded' = Decode(data, u)
    /\ rxReads' = DecodeReads(data)
    /\ phase' = "received"
    /\ UNCHANGED <<pm, viaBuilders, pmTtlOp, objVars, routerVars, noiseVars,
                   linkVars, meshVars, chanVars, dirVars, svcVars, queryVars,
                   orderVars, chanTask, echoVars>>

InitRx ==
    /\ CodecIdle /\ ObjIdle /\ RouterInit /\ NoiseInit /\ LinkInit /\ MeshInit /\ ChanInit /\ ExtInit

NextRx ==
    \E data \in RxFrames, u \in Uuids \ {pm.id} : ReceiveAct(data, u)

SpecRx == InitRx /\ [][NextRx]_vars

(* C31: every frame decode accepts from the link has the current version,
   a ttl of at most MAX_TTL and a total length of at most MAX_PAYLOAD_SIZE. *)
C31_AcceptedFrames ==
    (phase = "received" /\ decoded.ok) =>
        /\ Unwrap(decoded.msg).version = PROTOCOL_VERSION
        /\ Unwrap(decoded.msg).ttl <= MAX_TTL
        /\ Len(wire.bytes) <= MAX_PAYLOAD_SIZE

(* C34: for every received byte sequence decode returns a frame or an error
   and reads only indices inside its input. *)
C34_ReadsInsideInput ==
    phase = "received" =>
        /\ rxReads \subseteq 1..Len(wire.bytes)
        /\ decoded.ok \/ decoded.err /= ""
        /\ decoded.ok => IsSome(decoded.msg)

(* A 22-byte input that declares a payload of 65535 bytes has been refused
   after its 22 bytes were read. *)
C34_Witness ==
    /\ phase = "received"
    /\ Len(wire.bytes) = 22
    /\ U16FromBeBytes(SubSeq(wire.bytes, 13, 14)) = 65535
    /\ ~decoded.ok
    /\ decoded.err = "payload length mismatch"
    /\ rxReads = 1..22


(* ---------------------------------------------------------------------- *)
(* Echoes of locally originated messages                                   *)
(* ---------------------------------------------------------------------- *)

(* cleanup_cache(max_age_hours) under the write lock of message_cache: the
   entries whose timestamp is before the cutoff are removed.  Timestamps of
   local messages grow with their ids, so the cutoff is given as the first
   id that is kept. *)
CleanupCache(cutoff) ==
    /\ \E id \in DOMAIN message_cache : id < cutoff
    /\ message_cache' = [id \in {x \in DOMAIN message_cache : x >= cutoff} |->
                            message_cache[id]]
    /\ evicted' = evicted \cup {x \in DOMAIN message_cache : x < cutoff}
    /\ UNCHANGED <<messages, task, calls, dispatchCount, relayCount, relaySeen,
                   storeLog, removedAny, outbox, lastSend, codecVars, objVars,
                   noiseVars, linkVars, meshVars, chanVars, dirVars, svcVars,
                   queryVars, orderVars, rxReads, chanTask, originated>>

(* The messages of the node as a neighbour sends them back: the three types
   send_message and send_private_message make, with hops left. *)
EchoMsgs ==
    {m \in IncomingMsgs :
        m.message_type \in {"Broadcast", "Channel", "Private"} /\ m.ttl > 0}

(* A message the node has sent comes back from the mesh. *)
EchoArrives(t, m) ==
    /\ m.id \in originated
    /\ Begin(t, m)

InitEcho ==
    /\ CodecIdle /\ ObjIdle /\ RouterInit /\ NoiseInit /\ LinkInit /\ MeshInit /\ ChanInit /\ ExtInit

NextEcho ==
    \/ \E t \in Tasks, kind \in {"broadcast", "channel", "private"} : SendStore(t, kind)
    \/ \E t \in Tasks : SendCache(t)
    \/ \E t \in Tasks, m \in EchoMsgs : EchoArrives(t, m)
    \/ \E t \in Tasks : StoreStep(t)
    \/ \E t \in Tasks : CacheStep(t)
    \/ \E t \in Tasks : DispatchStep(t)
    \/ \E t \in Tasks : RelayStep(t)
    \/ \E cutoff \in 2..(MaxCalls + 1) : CleanupCache(cutoff)

SpecEcho == InitEcho /\ [][NextEcho]_vars

(* The echoes of message id have all been dropped at the seen check: the
   message was stored once, by send_message, and was neither dispatched nor
   considered for relay. *)
EchoDropped(id) ==
    /\ Cardinality({i \in 1..Len(storeLog) : storeLog[i] = id}) = 1
    /\ dispatchCount[id] = 0
    /\ relayCount[id] = 0
    /\ \A t \in Tasks : task[t].pc \in {"store", "cache", "dispatch", "relay"}
                            => Unwrap(task[t].msg).id /= id

(* C32 as stated: a message originated locally is dropped whenever it comes
   back from the mesh. *)
C32_EchoDroppedAlways ==
    \A id \in originated : EchoDropped(id)

(* C32: a message originated locally is in message_cache when send_message
   returns, and as long as cleanup_cache has not removed its id an echo of it
   is dropped: not stored again, not dispatched, not considered for relay. *)
C32_EchoDropped ==
    \A id \in originated \ evicted : id \in DOMAIN message_cache /\ EchoDropped(id)

(* Message 1 was sent, came back and was dropped: two calls were made, one
   store_message happened and no task is at work. *)
C32_Witness ==
    /\ originated = {1}
    /\ evicted = {}
    /\ calls = 2
    /\ storeLog = <<1>>
    /\ AllIdle
    /\ dispatchCount[1] = 0


(* ---------------------------------------------------------------------- *)
(* From the links to process_message                                       *)
(* ---------------------------------------------------------------------- *)

MaxArrivals == 2      \* notifications per link in a run

(* What a notification carries: bytes that do not decode, or an Announce
   with a nickname. *)
ArrivalKinds ==
    {[decodes |-> FALSE, message_type |-> "Message"],
     [decodes |-> TRUE, message_type |-> "Announce"]}

(* The n-th notification of link d, not yet taken by the notification task. *)
Notification(d, n, k) ==
    [link |-> d, seq |-> n, decodes |-> k.decodes,
     message_type |-> k.message_type, stage |-> "queued"]

(* Variant of ChannelSend that puts the message at the head of the queue. *)
ChannelSendFront(q, m) == <<m>> \o q

(* tx.send(message) on the unbounded mpsc channel *)
ChannelSend(q, m) == Append(q, m)

OrderFrame == <<codecVars, objVars, routerVars, noiseVars, linkVars, meshVars,
                chanVars, svcVars, queryVars, rxReads, chanTask, echoVars>>

(* The peripheral of link d emits a notification: it waits in the stream of
   the notification task of d. *)
Arrive(d, k) ==
    /\ d \in notifTasks
    /\ Len(arrived[d]) < MaxArrivals
    /\ LET f == Notification(d, Len(arrived[d]) + 1, k)
       IN  /\ arrived' = [arrived EXCEPT ![d] = Append(@, f)]
           /\ linkQueue' = [linkQueue EXCEPT ![d] = Append(@, f)]
    /\ UNCHANGED <<msgChannel, processed, dirVars, OrderFrame>>

(* The notification task of d takes the next notification:
   handle_notification decodes it and runs the handler of its type.  A frame
   that does not decode ends the call with an error. *)
NotifTake(d) ==
    /\ linkQueue[d] /= <<>>
    /\ Head(linkQueue[d]).stage = "queued"
    /\ LET f == Head(linkQueue[d])
       IN  /\ linkQueue' = [linkQueue EXCEPT ![d] =
                  IF f.decodes
                  THEN <<[f EXCEPT !.stage = "handled"]>> \o Tail(@)
                  ELSE Tail(@)]
           /\ peers' = IF f.decodes /\ f.message_type = "Announce"
                       THEN HandleAnnounceOf(peers, blocked_peers, PeerB, clock)
                       ELSE peers
    /\ UNCHANGED <<msgChannel, processed, arrived, favorites, blocked_peers,
                   clock, lastSweep, OrderFrame>>

(* ... and sends the decoded message on message_tx; the task then waits for
   the next notification. *)
NotifForward(d) ==
    /\ linkQueue[d] /= <<>>
    /\ Head(linkQueue[d]).stage = "handled"
    /\ msgChannel' = ChannelSend(msgChannel, Head(linkQueue[d]))
    /\ linkQueue' = [linkQueue EXCEPT ![d] = Tail(@)]
    /\ UNCHANGED <<processed, arrived, dirVars, OrderFrame>>

(* The message processing task: message_rx.recv() and process_message. *)
ProcessMessage ==
    /\ ~message_rx
    /\ msgChannel /= <<>>
    /\ processed' = Append(processed, Head(msgChannel))
    /\ msgChannel' = Tail(msgChannel)
    /\ UNCHANGED <<linkQueue, arrived, dirVars, OrderFrame>>

InitOrder ==
    /\ CodecIdle /\ ObjIdle /\ RouterInit /\ NoiseInit /\ LinkInit /\ MeshInit /\ ChanInit /\ ExtInit

NextOrder ==
    \/ Start
    \/ \E d \in SvcDevices : ScanEvent(d)
    \/ \E d \in SvcDevices : HandleDiscovered(d, "ok")
    \/ \E d \in SvcDevices, k \in ArrivalKinds : Arrive(d, k)
    \/ \E d \in SvcDevices : NotifTake(d)
    \/ \E d \in SvcDevices : NotifForward(d)
    \/ ProcessMessage

SpecOrder == InitOrder /\ [][NextOrder]_vars

(* The elements of sequence s that came over link d, in the order of s. *)
OfLink(s, d) ==
    LET FromD(x) == x.link = d IN SelectSeq(s, FromD)

(* The notifications of link d that decode, in their arrival order. *)
Decodable(d) ==
    LET Decodes(x) == x.decodes IN SelectSeq(arrived[d], Decodes)

(* s is an initial part of t, stages apart. *)
IsPrefixOf(s, t) ==
    /\ Len(s) <= Len(t)
    /\ \A i \in 1..Len(s) : s[i].seq = t[i].seq /\ s[i].link = t[i].link

(* C35: the frames of one link reach process_message in their arrival
   order: what was processed and what waits in the channel from a link is an
   initial part of what arrived on the link, whatever the other links do. *)
C35_ArrivalOrder ==
    \A d \in SvcDevices :
        IsPrefixOf(OfLink(processed, d) \o OfLink(msgChannel, d), Decodable(d))

(* Two frames of link 1 were processed with a frame of link 2 between them. *)
C35_Witness ==
    /\ Len(processed) = 3
    /\ processed[1].link = 1 /\ processed[1].seq = 1
    /\ processed[2].link = 2
    /\ processed[3].link = 1 /\ processed[3].seq = 2


(* ---------------------------------------------------------------------- *)
(* ChannelCrypto called from concurrent tasks                              *)
(* ---------------------------------------------------------------------- *)

(* The calls that write both maps.  Each does one operation on channel_keys
   and then one on password_cache; the two DashMaps are locked one after the
   other, never together. *)
InsertingOps == {"set_channel_password", "try_decrypt_with_password", "import_channel_key"}
RemovingOps == {"remove_channel_password", "cleanup_unused_keys"}

TaskChanFrame == <<codecVars, objVars, routerVars, noiseVars, linkVars, meshVars,
                   dirVars, svcVars, queryVars, orderVars, rxReads, echoVars>>

(* Task t enters a call: the key of an inserting call is made from its
   arguments (set_channel_password uses the zero salt); cleanup_unused_keys
   has collected channel ch, whose key it found older than the cutoff. *)
ChanCall(t, op, ch, pw, salt) ==
    /\ chanTask[t].pc = "idle"
    /\ op = "set_channel_password" => salt = ZeroSalt
    /\ op = "cleanup_unused_keys" => IsSome(channel_keys[ch])
    /\ chanTask' = [chanTask EXCEPT ![t] =
           [op |-> op, pc |-> "channel_keys", channel |-> ch,
            password |-> IF op \in InsertingOps THEN pw ELSE <<>>,
            salt |-> IF op \in InsertingOps THEN salt ELSE <<>>]]
    /\ UNCHANGED <<chanVars, TaskChanFrame>>

(* self.channel_keys.insert(channel, key) or self.channel_keys.remove(channel) *)
ChanKeysStep(t) ==
    /\ chanTask[t].pc = "channel_keys"
    /\ LET c == chanTask[t] IN
       channel_keys' = [channel_keys EXCEPT ![c.channel] =
           IF c.op \in InsertingOps
           THEN Some(FromPasswordAndSalt(c.channel, c.password, c.salt))
           ELSE None]
    /\ chanTask' = [chanTask EXCEPT ![t].pc = "password_cache"]
    /\ UNCHANGED <<password_cache, chanOp, TaskChanFrame>>

(* self.password_cache.insert(channel, password) or
   self.password_cache.remove(channel), and the call returns. *)
ChanCacheStep(t) ==
    /\ chanTask[t].pc = "password_cache"
    /\ LET c == chanTask[t] IN
       password_cache' = [password_cache EXCEPT ![c.channel] =
           IF c.op \in InsertingOps THEN Some(c.password) ELSE None]
    /\ chanTask' = [chanTask EXCEPT ![t] = IdleCall]
    /\ UNCHANGED <<channel_keys, chanOp, TaskChanFrame>>

InitChanTasks ==
    /\ CodecIdle /\ ObjIdle /\ RouterInit /\ NoiseInit /\ LinkInit /\ MeshInit /\ ChanInit /\ ExtInit

NextChanTasks ==
    \/ \E t \in ChanTasks, op \in InsertingOps \cup RemovingOps, ch \in Channels,
          pw \in Passwords, salt \in Salts : ChanCall(t, op, ch, pw, salt)
    \/ \E t \in ChanTasks : ChanKeysStep(t)
    \/ \E t \in ChanTasks : ChanCacheStep(t)

SpecChanTasks == InitChanTasks /\ [][NextChanTasks]_vars

(* verify_channel_password(channel, password) *)
VerifyChannelPassword(ch, pw) ==
    IsSome(password_cache[ch]) /\ Unwrap(password_cache[ch]) = pw

(* C38: whenever no ChannelCrypto call is in progress, a channel has a key
   if and only if it has a cached password, and the key is the one derived
   from that password and the key's salt. *)
C38_KeyMatchesPassword ==
    (\A t \in ChanTasks : chanTask[t].pc = "idle") =>
        \A ch \in Channels :
            /\ IsSome(channel_keys[ch]) <=> IsSome(password_cache[ch])
            /\ IsSome(channel_keys[ch]) =>
                  \A pw \in Passwords :
                      VerifyChannelPassword(ch, pw) <=>
                          Unwrap(channel_keys[ch]).key =
                              DeriveKey(pw, Unwrap(channel_keys[ch]).salt)

====
